---- MODULE Spec2Model ----
(***************************************************************************)
(* Model of SunoAdapter (src/src/suno_api.py): the credential store and    *)
(* refresh_token, the request executor _request with its 401 and 402       *)
(* recoveries, the submission in _generate_request and its polling loop    *)
(* over get().  The remote API, the identity provider and the CAPTCHA      *)
(* solver are the environment: each answer is chosen nondeterministically. *)
(***************************************************************************)
EXTENDS Integers, Sequences, FiniteSets, TLC

VARIABLES
    base_url,               \* self._base_url, as the segments the local pattern is matched on
    token,                  \* self._token
    auth_header,            \* the Authorization header of self._client ("" when not set)
    pc,                     \* position of the single flow of control
    caller,                 \* which operation the running _request returns to
    method,                 \* HTTP method of the running _request
    attempt_captcha_solve,  \* parameter of the running _request frame
    depth,                  \* 1 inside the recursive _request issued after a solve
    payload,                \* kwargs["json"] of the running _request
    held,                   \* the 402 response being handled
    ret,                    \* what _request returned or raised (the body until the caller has read it)
    log,                    \* outbound calls of the running logical _request, in order
    timeout,                \* parameter of _generate_request
    polling_interval,       \* parameter of _generate_request
    wait_audio,             \* parameter of _generate_request
    clips,                  \* initial_response["clips"], kept while line 264 can still return it
    clip_ids,               \* clip_ids of _generate_request
    now,                    \* time.time(), counted from the start of the generation call
    start_time,             \* start_time of the polling loop
    tick,                   \* number of interval sleeps of the poll session
    reads,                  \* number of get() calls of the poll session
    feed_response,          \* feed_response of the tick being evaluated (<<>> until its get() returns)
    firstTerminalTick,      \* per job id, the first tick whose snapshot showed it terminal
    periodic_refresh,       \* what line 275 did in the current tick: "none" (not called),
                            \* "local" (placeholder set, no network), "ok" or "failed"
    result,                 \* what the generation call returned or raised
    cookie,                 \* the cookie argument of __init__, as a sequence of segments
    config,                 \* src/config.py: SUNO_COOKIE and SUNO_SESSION_ID (SUNO_TOKEN is
                            \* read once, at line 59, as the first value of token)
    sid_from_cookie,        \* what _extract_sid_from_cookie returned at line 50
    session_id,             \* self._session_id
    constructed,            \* "new" before __init__ runs, then "ok" or the ValueError raised
    args,                   \* the arguments of a generate / custom_generate call
    built,                  \* the payload dict handed to _generate_request (<<>> before)
    SUNO_API_BASE_URL,      \* main.py line 30
    registered_tools,       \* main.py line 41
    registered_resource_handlers, \* main.py line 42
    suno_client,            \* mcp.state.suno_client: "None", "MockSunoAdapter" or "SunoAdapter"
    server,                 \* "importing", "loaded", "ready" (client initialised) or "closed"
    tool_result,            \* what the last tool or resource call returned or raised
    tasks,                  \* the generation calls running as asyncio tasks on one adapter
    issued,                 \* how many tokens the identity provider has issued
    last_write,             \* the token of the refresh_token call that finished last
    get_ids                 \* the ids argument of a get() call made from outside

vars == <<base_url, token, auth_header, pc, caller, method, attempt_captcha_solve,
          depth, payload, held, ret, log, timeout, polling_interval, wait_audio,
          clips, clip_ids, now, start_time, tick, reads, feed_response,
          firstTerminalTick, periodic_refresh, result,
          cookie, config, sid_from_cookie, session_id, constructed,
          args, built, SUNO_API_BASE_URL, registered_tools,
          registered_resource_handlers, suno_client, server, tool_result,
          tasks, issued, last_write, get_ids>>

credVars == <<base_url, token, auth_header>>
frameVars == <<caller, method, attempt_captcha_solve, depth, payload, held, ret, log>>
callVars == <<timeout, polling_interval, wait_audio, clips, clip_ids>>
pollVars == <<start_time, tick, reads, feed_response, firstTerminalTick, periodic_refresh>>
ctorVars == <<cookie, config, sid_from_cookie, session_id, constructed>>
\* what the operations of a constructed adapter leave alone
payloadVars == <<args, built>>
registryVars == <<registered_tools, registered_resource_handlers>>
serverVars == <<SUNO_API_BASE_URL, registryVars, suno_client, server, tool_result>>
concVars == <<tasks, issued, last_write>>
getVars == <<get_ids>>
restVars == <<ctorVars, payloadVars, serverVars, concVars, getVars>>
\* what the concurrent tasks leave alone
seqVars == <<base_url, pc, frameVars, callVars, pollVars, now, result,
             ctorVars, payloadVars, serverVars, getVars>>

----------------------------------------------------------------------------
(* Bounds of the model *)

\* longest clip list of a submission response
MaxClips == 2
\* longest record list of a feed response
MaxFeed == 2
\* the short timeout budget a caller passes
ShortTimeout == 10
\* the long timeout budget a caller passes
LongTimeout == 100
\* the long polling interval a caller passes
LongInterval == 30
\* longest cookie string, in segments
MaxCookieLen == 6
MaxIssued == 3

(* Program constants *)

DEFAULT_POLLING_INTERVAL == 5
POLL_REFRESH_AFTER == 60

----------------------------------------------------------------------------
(* Values *)

NoToken == ""
NoId == ""
\* Python's None where a cookie or a session id is expected
None == <<"None">>
LOCAL_TOKEN == "local-development-token"
LOCAL_API_PATTERN == {"localhost:", "127.0.0.1:"}
DEFAULT_BASE_URL == <<"https://", "studio-api.suno.ai">>
BaseUrls == {DEFAULT_BASE_URL, <<"http://", "localhost:", "3000">>}
SeedTokens == {NoToken, "seed"}
Jwts == {"jwt1", "jwt2"}
\* the identity provider issues a token that differs from the current one
FreshJwt(tok) == IF tok = "jwt1" THEN "jwt2" ELSE "jwt1"
CaptchaTokens == {"solved1", "solved2"}
JobIds == {"A", "B"}
Statuses == {"complete", "error", "streaming"}

\* a clip of a submission response; id = NoId when the clip has no "id" key
SubmitClips == [id : JobIds \cup {NoId}, status : {"submitted"}]
\* a record of a feed response
FeedClips == [id : JobIds, status : Statuses]

SeqsUpTo(S, n) == UNION {[1..k -> S] : k \in 0..n}

NoResp == [status |-> 0, shape |-> "none", clips |-> <<>>, error |-> "", sitekey |-> ""]
Resp(st, sh) == [NoResp EXCEPT !.status = st, !.shape = sh]

\* the answers the remote API can give to one request; status 0 is no answer at all
ErrorResponses ==
    {Resp(401, "dict"), Resp(429, "dict"), Resp(500, "dict"), Resp(0, "none"),
     [Resp(402, "dict") EXCEPT !.sitekey = "key"], Resp(402, "dict"), Resp(402, "invalid")}

SubmitResponses ==
    {[Resp(200, "clips_dict") EXCEPT !.clips = c, !.error = e] :
        c \in SeqsUpTo(SubmitClips, MaxClips), e \in {"", "failed"}}
    \cup {Resp(200, "dict"), Resp(200, "list"), Resp(200, "invalid")}

FeedResponses ==
    {[Resp(200, "list") EXCEPT !.clips = c] : c \in SeqsUpTo(FeedClips, MaxFeed)}
    \cup {Resp(200, "dict"), Resp(200, "badlist"), Resp(200, "invalid")}

RemoteResponses(m) ==
    ErrorResponses \cup (IF m = "POST" THEN SubmitResponses ELSE FeedResponses)

\* the answers of the identity provider to one token-issuance call
ClerkResponses(tok) ==
    {[status |-> 200, jwt |-> j] : j \in {FreshJwt(tok), NoToken}}
    \cup {[status |-> s, jwt |-> NoToken] : s \in {401, 404, 500, 0}}

\* what solve_hcaptcha returns: a token, or None (NoToken)
SolverResults == CaptchaTokens \cup {NoToken}

PollConfigs ==
    {[timeout |-> ShortTimeout, polling_interval |-> DEFAULT_POLLING_INTERVAL],
     [timeout |-> ShortTimeout, polling_interval |-> LongInterval],
     [timeout |-> LongTimeout, polling_interval |-> LongInterval]}

----------------------------------------------------------------------------
(* Credentials *)

IsLocalApi(url) == \E i \in 1..Len(url) : url[i] \in LOCAL_API_PATTERN

\* UpdateHeaders with the Authorization header never rewritten
UpdateHeadersStale(tok, header) == header

\* _update_headers: the Authorization header is rewritten only for a truthy token
UpdateHeaders(tok, header) == IF tok # NoToken THEN tok ELSE header

\* refresh_token against answer c: [ok, token, err, netcall]
RefreshToken(url, tok, c) ==
    IF IsLocalApi(url)
    THEN [ok |-> TRUE, token |-> LOCAL_TOKEN, err |-> <<>>, netcall |-> FALSE]
    ELSE IF c.status = 200 /\ c.jwt # NoToken
    THEN [ok |-> TRUE, token |-> c.jwt, err |-> <<>>, netcall |-> TRUE]
    ELSE IF c.status = 200
    THEN [ok |-> FALSE, token |-> tok, netcall |-> TRUE,
          err |-> <<"An unexpected error occurred during token refresh", "Could not find JWT">>]
    ELSE IF c.status \in {401, 404}
    THEN [ok |-> FALSE, token |-> tok, netcall |-> TRUE,
          err |-> <<"Failed to refresh token: Session ID might be invalid or expired">>]
    ELSE IF c.status = 0
    THEN [ok |-> FALSE, token |-> tok, netcall |-> TRUE,
          err |-> <<"An unexpected error occurred during token refresh">>]
    ELSE [ok |-> FALSE, token |-> tok, netcall |-> TRUE,
          err |-> <<"Failed to refresh token">>]

----------------------------------------------------------------------------
(* Request executor: _request *)

NoRet == [ok |-> FALSE, resp |-> NoResp, err |-> <<>>]
Ok(r) == [ok |-> TRUE, resp |-> r, err |-> <<>>]
Err(e) == [ok |-> FALSE, resp |-> NoResp, err |-> e]

NoPayload == [present |-> FALSE, captcha_token |-> NoToken]
JsonPayload == [present |-> TRUE, captcha_token |-> NoToken]

\* one outbound call, as the log keeps it
Entry(o, st, tok, n, out) ==
    [op |-> o, status |-> st, captcha_token |-> payload.captcha_token, auth |-> tok,
     allowed |-> attempt_captcha_solve, net |-> n, issued |-> out]

\* Classify with a 429 answer sent down the refresh-and-retry branch
ClassifyRetrying429(r, allowed) ==
    IF r.status = 0 THEN "network"
    ELSE IF r.status = 200 THEN (IF r.shape = "invalid" THEN "bad_json" ELSE "ok")
    ELSE IF r.status \in {401, 429} THEN "401"
    ELSE IF r.status = 402 /\ allowed THEN "402"
    ELSE "other"

\* the branch of _request a response to the first attempt takes
Classify(r, allowed) ==
    IF r.status = 0 THEN "network"
    ELSE IF r.status = 200 THEN (IF r.shape = "invalid" THEN "bad_json" ELSE "ok")
    ELSE IF r.status = 401 THEN "401"
    ELSE IF r.status = 402 /\ allowed THEN "402"
    ELSE IF r.status = 429 THEN "429"
    ELSE "other"

\* the error _request raises for a first attempt that takes no recovery branch
FirstAttemptError(r) ==
    IF r.status = 0 THEN <<"Network error connecting to Suno API">>
    ELSE IF r.status = 200 THEN <<"An unexpected error occurred">>
    ELSE IF r.status = 429 THEN <<"API rate limit exceeded">>
    ELSE <<"API Error">>

\* the exception the except clause of the 401 branch catches from the retry
RetryCause(r) ==
    IF r.status = 0 THEN <<"RequestError">>
    ELSE IF r.status = 200 THEN <<"JSONDecodeError">>
    ELSE <<"HTTPStatusError">>

\* After401Retry with a 402 answer to the retry handed to the challenge branch
After401RetryChallenged(r) ==
    IF r.status = 200 /\ r.shape # "invalid" THEN "return"
    ELSE IF r.status = 402 THEN "req_402"
    ELSE "raise"

\* After401Retry with a retry that gets no answer awaited for ever
After401RetryHangs(r) ==
    IF r.status = 200 /\ r.shape # "invalid" THEN "return"
    ELSE IF r.status = 0 THEN "req_401_awaiting"
    ELSE "raise"

\* After401Retry with a 401 answer to the retry starting the recovery over
After401RetryAgain(r) ==
    IF r.status = 200 /\ r.shape # "invalid" THEN "return"
    ELSE IF r.status = 401 THEN "req_401"
    ELSE "raise"

\* what follows the answer to the retry issued after a 401: "return" or "raise"
After401Retry(r) ==
    IF r.status = 200 /\ r.shape # "invalid" THEN "return" ELSE "raise"

\* RecursiveCaptchaFlag with challenge handling left on in the recursive call
RecursiveCaptchaFlagOn == TRUE

\* attempt_captcha_solve of the recursive _request issued after a solve
RecursiveCaptchaFlag == FALSE

\* WithCaptchaToken retrying with the payload as it was
WithCaptchaTokenDropped(p, tok) == p

\* kwargs["json"] with the solver's token added
WithCaptchaToken(p, tok) == [present |-> TRUE, captcha_token |-> tok]

\* an error leaving the recursive frame passes the 402 handler of the outer frame
Unwind(e) == IF depth = 1 THEN <<"Error processing CAPTCHA challenge">> \o e ELSE e

Returns(r) ==
    /\ pc' = "returned"
    /\ ret' = r
    /\ depth' = 0

Raises(e) == Returns(Err(Unwind(e)))

\* NeedsLazyRefresh with the check for a missing token left out
NeedsLazyRefreshNever(tok, url) == FALSE

\* line 161: a non-local client without a token refreshes before it sends
NeedsLazyRefresh(tok, url) == tok = NoToken /\ ~IsLocalApi(url)

\* AfterLazyRefresh with a failed refresh ignored
AfterLazyRefreshIgnored(o) == "req_send"

\* line 163 stands before the try: a failed lazy refresh leaves _request at once
AfterLazyRefresh(o) == IF o.ok THEN "req_send" ELSE "raise"

\* lines 158-163: the lazy refresh before the first attempt
RequestBegin ==
    /\ pc = "req_begin"
    /\ IF NeedsLazyRefresh(token, base_url)
       THEN \E c \in ClerkResponses(token) :
              LET o == RefreshToken(base_url, token, c) IN
              /\ token' = o.token
              /\ auth_header' = UpdateHeaders(o.token, auth_header)
              /\ log' = Append(log, Entry("lazy_refresh", c.status, token, o.netcall, IF o.ok THEN o.token ELSE NoToken))
              /\ IF AfterLazyRefresh(o) = "req_send"
                 THEN pc' = "req_send" /\ UNCHANGED <<ret, depth>>
                 ELSE Raises(o.err)
       ELSE /\ pc' = "req_send"
            /\ UNCHANGED <<token, auth_header, log, ret, depth>>
    /\ UNCHANGED <<base_url, caller, method, attempt_captcha_solve, payload, held>>
    /\ UNCHANGED <<callVars, pollVars, now, result>>
    /\ UNCHANGED restVars

\* lines 165-232: the first attempt and the classification of its answer
RequestSend ==
    /\ pc = "req_send"
    /\ \E r \in RemoteResponses(method) :
         LET branch == Classify(r, attempt_captcha_solve) IN
         /\ log' = Append(log, Entry("request", r.status, auth_header, TRUE, NoToken))
         /\ IF branch = "ok" THEN Returns(Ok(r)) /\ held' = held
            ELSE IF branch = "401" THEN pc' = "req_401" /\ UNCHANGED <<ret, depth, held>>
            ELSE IF branch = "402" THEN pc' = "req_402" /\ held' = r /\ UNCHANGED <<ret, depth>>
            ELSE Raises(FirstAttemptError(r)) /\ held' = held
    /\ UNCHANGED <<credVars, caller, method, attempt_captcha_solve, payload>>
    /\ UNCHANGED <<callVars, pollVars, now, result>>
    /\ UNCHANGED restVars

\* After401Refresh with the retry sent whatever the refresh did
After401RefreshRetryAnyway(o) == "req_401_retry"

\* lines 174-182: a refresh that raises skips the retry of line 176
After401Refresh(o) == IF o.ok THEN "req_401_retry" ELSE "raise"

\* lines 172-175 and 180-182: the refresh that a 401 triggers
Request401Refresh ==
    /\ pc = "req_401"
    /\ \E c \in ClerkResponses(token) :
         LET o == RefreshToken(base_url, token, c) IN
         /\ token' = o.token
         /\ auth_header' = UpdateHeaders(o.token, auth_header)
         /\ log' = Append(log, Entry("refresh", IF o.netcall THEN c.status ELSE 200, token, o.netcall,
                                  IF o.ok THEN o.token ELSE NoToken))
         /\ IF After401Refresh(o) = "req_401_retry"
            THEN pc' = "req_401_retry" /\ UNCHANGED <<ret, depth>>
            ELSE Raises(<<"Token refresh failed or retry failed after 401">> \o o.err)
    /\ UNCHANGED <<base_url, caller, method, attempt_captcha_solve, payload, held>>
    /\ UNCHANGED <<callVars, pollVars, now, result>>
    /\ UNCHANGED restVars

\* lines 176-182: the single retry after the refresh
Request401Retry ==
    /\ pc = "req_401_retry"
    /\ \E r \in RemoteResponses(method) :
         LET next == After401Retry(r) IN
         /\ log' = Append(log, Entry("retry", r.status, auth_header, TRUE, NoToken))
         /\ IF next = "return" THEN Returns(Ok(r))
            ELSE IF next = "raise"
            THEN Raises(<<"Token refresh failed or retry failed after 401">>
                        \o RetryCause(r))
            ELSE pc' = next /\ UNCHANGED <<ret, depth>>
    /\ UNCHANGED <<credVars, caller, method, attempt_captcha_solve, payload, held>>
    /\ UNCHANGED <<callVars, pollVars, now, result>>
    /\ UNCHANGED restVars

\* CaptchaStep with the solver invoked whatever the body holds
CaptchaStepAlwaysSolve(h) == "solve"

\* lines 187-195: what the body of the 402 answer allows
CaptchaStep(h) ==
    IF h.shape = "invalid" THEN "invalid"
    ELSE IF h.sitekey = "" THEN "missing"
    ELSE "solve"

\* lines 184-217: the challenge solve that a 402 triggers, and the recursive call
Request402 ==
    /\ pc = "req_402"
    /\ IF CaptchaStep(held) = "invalid"
       THEN /\ Returns(Err(Unwind(<<"Error processing CAPTCHA challenge", "invalid body">>)))
            /\ UNCHANGED <<log, payload, attempt_captcha_solve>>
       ELSE IF CaptchaStep(held) = "missing"
       THEN /\ Returns(Err(Unwind(<<"Error processing CAPTCHA challenge",
                                     "CAPTCHA required (402) but sitekey missing">>)))
            /\ UNCHANGED <<log, payload, attempt_captcha_solve>>
       ELSE \E solved \in SolverResults :
              /\ log' = Append(log, Entry("solve", IF solved = NoToken THEN 0 ELSE 200, auth_header, TRUE, solved))
              /\ IF solved = NoToken
                 THEN /\ Returns(Err(Unwind(<<"Error processing CAPTCHA challenge",
                                               "CAPTCHA required but solving failed">>)))
                      /\ UNCHANGED <<payload, attempt_captcha_solve>>
                 ELSE /\ payload' = WithCaptchaToken(payload, solved)
                      /\ attempt_captcha_solve' = RecursiveCaptchaFlag
                      /\ depth' = depth + 1
                      /\ pc' = "req_begin"
                      /\ ret' = ret
    /\ UNCHANGED <<credVars, caller, method, held>>
    /\ UNCHANGED <<callVars, pollVars, now, result>>
    /\ UNCHANGED restVars

----------------------------------------------------------------------------
(* Generation: generate / custom_generate, _generate_request and get *)

NoResult == [state |-> "none", clips |-> <<>>, err |-> <<>>, names |-> <<>>]
Value(cs) == [NoResult EXCEPT !.state = "value", !.clips = cs]
Failure(e, ids) == [NoResult EXCEPT !.state = "error", !.err = e, !.names = ids]

NoClip == [id |-> NoId, status |-> "none"]
Range(f) == {f[i] : i \in DOMAIN f}
InIds(ids, c) == c.id \in Range(ids)
FilterIds(cs, ids) == SelectSeq(cs, LAMBDA c : InIds(ids, c))

\* line 253: the ids of the clips that have one
ClipIds(cs) ==
    LET withId == SelectSeq(cs, LAMBDA c : c.id # NoId)
    IN  [i \in 1..Len(withId) |-> withId[i].id]

\* line 289: the first record of the feed with this id
RECURSIVE FindClip(_, _)
FindClip(feed, id) ==
    IF feed = <<>> THEN NoClip
    ELSE IF Head(feed).id = id THEN Head(feed)
    ELSE FindClip(Tail(feed), id)

IsTerminal(status) == status \in {"complete", "error"}

\* ClipIsDone with only "complete" ending the wait for a clip
ClipIsDoneCompleteOnly(clip_data) ==
    IF clip_data = NoClip THEN FALSE
    ELSE IF clip_data.status = "complete" THEN TRUE
    ELSE FALSE

\* ClipIsDone with a missing record skipped instead of breaking the loop
ClipIsDoneMissingSkipped(clip_data) ==
    IF clip_data = NoClip THEN TRUE
    ELSE IF clip_data.status = "complete" THEN TRUE
    ELSE IF clip_data.status = "error" THEN TRUE
    ELSE FALSE

\* lines 290-306: one pass of the inner loop over a found-or-missing record:
\* TRUE to go on to the next id, FALSE to break with all_done = False
ClipIsDone(clip_data) ==
    IF clip_data = NoClip THEN FALSE
    ELSE IF clip_data.status = "complete" THEN TRUE
    ELSE IF clip_data.status = "error" THEN TRUE
    ELSE FALSE

\* lines 285-306: all_done after the inner loop
RECURSIVE AllDone(_, _)
AllDone(ids, feed) ==
    IF ids = <<>> THEN TRUE
    ELSE IF ClipIsDone(FindClip(feed, Head(ids))) THEN AllDone(Tail(ids), feed)
    ELSE FALSE

\* FinalClips with the errored records left out
FinalClipsCompleteOnly(feed, ids) ==
    SelectSeq(FilterIds(feed, ids), LAMBDA c : c.status = "complete")

\* line 311: the records returned when all_done
FinalClips(feed, ids) == FilterIds(feed, ids)

\* lines 409-431: what get(ids) returns for the outcome of its _request
GetResult(r, ids) ==
    IF ~r.ok THEN <<>>
    ELSE IF r.resp.shape = "list" THEN FilterIds(r.resp.clips, ids)
    ELSE <<>>

\* line 324: the ids the timeout error names
TimeoutNames(ids, feed) == ids

\* PollErrorNext with the exception leaving the loop
PollErrorNextRaise == "raise"

\* lines 318-322: where an exception raised inside a tick leads
PollErrorNext == "poll_check"

\* generate / custom_generate: build the payload and enter _generate_request (line 246)
Generate ==
    /\ pc \in {"idle", "done"}
    /\ \E cfg \in PollConfigs, wa \in BOOLEAN :
         /\ timeout' = cfg.timeout
         /\ polling_interval' = cfg.polling_interval
         /\ wait_audio' = wa
    /\ pc' = "req_begin"
    /\ caller' = "submit"
    /\ method' = "POST"
    /\ attempt_captcha_solve' = TRUE
    /\ depth' = 0
    /\ payload' = JsonPayload
    /\ held' = NoResp
    /\ ret' = NoRet
    /\ log' = <<>>
    /\ clips' = <<>>
    /\ clip_ids' = <<>>
    /\ now' = 0
    /\ start_time' = 0
    /\ tick' = 0
    /\ reads' = 0
    /\ feed_response' = <<>>
    /\ firstTerminalTick' = [id \in JobIds |-> 0]
    /\ periodic_refresh' = "none"
    /\ result' = NoResult
    /\ UNCHANGED credVars
    /\ UNCHANGED restVars

\* NoClipsResult with an empty clip list always reported as a failure
NoClipsResultFails(resp) == Failure(<<"Generation request failed">>, <<>>)

\* lines 255-260: the outcome of a submission that produced no clip id
NoClipsResult(resp) ==
    IF resp.error # ""
    THEN Failure(<<"Generation request failed">>, <<>>)
    ELSE Value(<<>>)

\* SkipsPolling with the polling loop entered whatever wait_audio says
SkipsPollingNever(wa) == FALSE

\* line 262: without wait_audio the clips of the submission are returned at once
SkipsPolling(wa) == ~wa

\* lines 246-268: the submission has returned
AfterSubmit ==
    /\ pc = "returned"
    /\ caller = "submit"
    /\ IF ~ret.ok
       THEN /\ result' = Failure(ret.err, <<>>)
            /\ pc' = "done"
            /\ UNCHANGED <<clips, clip_ids, start_time>>
       ELSE IF ret.resp.shape # "clips_dict"
       THEN /\ result' = Failure(<<"Unexpected initial response format">>, <<>>)
            /\ pc' = "done"
            /\ UNCHANGED <<clips, clip_ids, start_time>>
       ELSE /\ clips' = IF wait_audio THEN <<>> ELSE ret.resp.clips
            /\ clip_ids' = ClipIds(ret.resp.clips)
            /\ IF clip_ids' = <<>>
               THEN /\ result' = NoClipsResult(ret.resp)
                    /\ pc' = "done"
                    /\ UNCHANGED start_time
               ELSE IF SkipsPolling(wait_audio)
               THEN /\ result' = Value(ret.resp.clips)
                    /\ pc' = "done"
                    /\ UNCHANGED start_time
               ELSE /\ start_time' = now
                    /\ pc' = "poll_check"
                    /\ UNCHANGED result
    /\ ret' = NoRet
    /\ log' = <<>>
    /\ UNCHANGED <<caller, method, attempt_captcha_solve, depth, payload, held>>
    /\ UNCHANGED <<credVars, timeout, polling_interval, wait_audio>>
    /\ UNCHANGED <<now, tick, reads, feed_response, firstTerminalTick, periodic_refresh>>
    /\ UNCHANGED restVars

\* WithinBudget with the loop entered once more when the budget is just used up
WithinBudgetInclusive(elapsed, budget) == elapsed <= budget

\* line 270: the condition of the polling loop
WithinBudget(elapsed, budget) == elapsed < budget

\* lines 270-271: the loop condition holds, sleep one interval
PollSleep ==
    /\ pc = "poll_check"
    /\ WithinBudget(now - start_time, timeout)
    /\ now' = now + polling_interval
    /\ tick' = tick + 1
    /\ pc' = "poll_refresh"
    /\ feed_response' = <<>>
    /\ periodic_refresh' = "none"
    /\ UNCHANGED <<credVars, frameVars, callVars, result>>
    /\ UNCHANGED <<start_time, reads, firstTerminalTick>>
    /\ UNCHANGED restVars

\* lines 270 and 324: the loop condition fails
PollTimeout ==
    /\ pc = "poll_check"
    /\ ~WithinBudget(now - start_time, timeout)
    /\ result' = Failure(<<"Timeout waiting for clips to complete">>,
                         TimeoutNames(clip_ids, feed_response))
    /\ pc' = "done"
    /\ UNCHANGED <<credVars, frameVars, callVars, pollVars, now>>
    /\ UNCHANGED restVars

\* RefreshDue with the refresh made on every tick
RefreshDueAlways(elapsed) == TRUE

\* line 274: the periodic refresh is due once more than a minute has gone by
RefreshDue(elapsed) == elapsed > POLL_REFRESH_AFTER

\* GetCaptchaFlag with challenge handling left on for the status read
GetCaptchaFlagOn == TRUE

\* line 412: get() passes attempt_captcha_solve=False to _request
GetCaptchaFlag == FALSE

\* get(clip_ids) enters _request with challenge handling off (lines 409-415)
BeginRead ==
    /\ reads' = reads + 1
    /\ caller' = "poll"
    /\ method' = "GET"
    /\ attempt_captcha_solve' = GetCaptchaFlag
    /\ depth' = 0
    /\ payload' = NoPayload
    /\ held' = NoResp
    /\ ret' = NoRet
    /\ log' = <<>>
    /\ pc' = "req_begin"

\* lines 272-277: the periodic refresh of a long poll, then the status read
PollRefresh ==
    /\ pc = "poll_refresh"
    /\ IF RefreshDue(now - start_time)
       THEN \E c \in ClerkResponses(token) :
              LET o == RefreshToken(base_url, token, c) IN
              /\ token' = o.token
              /\ auth_header' = UpdateHeaders(o.token, auth_header)
              /\ periodic_refresh' = IF ~o.netcall THEN "local" ELSE IF o.ok THEN "ok" ELSE "failed"
              /\ IF o.ok
                 THEN BeginRead /\ UNCHANGED result
                 ELSE IF PollErrorNext = "poll_check"
                 THEN /\ pc' = "poll_check"
                      /\ UNCHANGED <<frameVars, reads, result>>
                 ELSE /\ pc' = "done"
                      /\ result' = Failure(o.err, <<>>)
                      /\ UNCHANGED <<frameVars, reads>>
       ELSE BeginRead /\ UNCHANGED <<token, auth_header, result, periodic_refresh>>
    /\ UNCHANGED <<base_url, callVars, now, start_time, tick, feed_response, firstTerminalTick>>
    /\ UNCHANGED restVars

\* lines 277-316: get() has returned; evaluate the snapshot
AfterRead ==
    /\ pc = "returned"
    /\ caller = "poll"
    /\ LET feed == GetResult(ret, clip_ids) IN
       /\ feed_response' = feed
       /\ firstTerminalTick' =
            [id \in JobIds |->
                IF /\ firstTerminalTick[id] = 0
                   /\ id \in Range(clip_ids)
                   /\ IsTerminal(FindClip(feed, id).status)
                THEN tick ELSE firstTerminalTick[id]]
       /\ IF feed # <<>> /\ AllDone(clip_ids, feed)
          THEN /\ result' = Value(FinalClips(feed, clip_ids))
               /\ pc' = "done"
          ELSE /\ pc' = "poll_check"
               /\ UNCHANGED result
    /\ ret' = [ret EXCEPT !.resp = NoResp]
    /\ log' = <<>>
    /\ UNCHANGED <<caller, method, attempt_captcha_solve, depth, payload, held>>
    /\ UNCHANGED <<credVars, callVars, now, start_time, tick, reads, periodic_refresh>>
    /\ UNCHANGED restVars

\* the id lists a caller of get() passes
IdLists == SeqsUpTo(JobIds, 2)

\* GetSendsRequest with a request sent for an empty id list too
GetSendsRequestAlways(i) == TRUE

\* lines 409-410: get() returns at once for an empty id list
GetSendsRequest(i) == i # <<>>

\* get(ids) is called from outside a generation call (lines 398-415)
Get ==
    /\ pc \in {"idle", "done"}
    /\ \E i \in IdLists :
         /\ get_ids' = i
         /\ IF GetSendsRequest(i)
            THEN pc' = "req_begin" /\ result' = NoResult
            ELSE pc' = "done" /\ result' = Value(<<>>)
    /\ caller' = "get"
    /\ method' = "GET"
    /\ attempt_captcha_solve' = GetCaptchaFlag
    /\ depth' = 0
    /\ payload' = NoPayload
    /\ held' = NoResp
    /\ ret' = NoRet
    /\ log' = <<>>
    /\ UNCHANGED <<credVars, callVars, pollVars, now>>
    /\ UNCHANGED <<ctorVars, payloadVars, serverVars, concVars>>

\* lines 415-431: _request has returned or raised inside get()
AfterGet ==
    /\ pc = "returned"
    /\ caller = "get"
    /\ result' = Value(GetResult(ret, get_ids))
    /\ pc' = "done"
    /\ UNCHANGED <<credVars, frameVars, callVars, pollVars, now>>
    /\ UNCHANGED restVars

----------------------------------------------------------------------------
(* Payloads: generate and custom_generate *)

DEFAULT_MODEL == "chirp-v3-5"
\* Python's None where a string argument is optional
NoneText == "<None>"
Texts == {"", "a song about rain", "[Verse] la la"}
OptionalTexts == {NoneText, "", "pop, upbeat"}
Models == {DEFAULT_MODEL, "chirp-v4"}

NoArgs == [mode |-> "none", prompt |-> "", tags |-> NoneText, title |-> NoneText,
           make_instrumental |-> FALSE, model |-> DEFAULT_MODEL]
\* generate(prompt, make_instrumental, model, ...): lines 326-334
GenerateArgs ==
    {[NoArgs EXCEPT !.mode = "generate", !.prompt = p, !.make_instrumental = i, !.model = m] :
        p \in Texts, i \in BOOLEAN, m \in Models}
\* custom_generate(prompt, tags, title, make_instrumental, model, ...): lines 358-368
CustomArgs ==
    {[mode |-> "custom", prompt |-> p, tags |-> t, title |-> ti,
      make_instrumental |-> i, model |-> m] :
        p \in Texts, t \in OptionalTexts, ti \in OptionalTexts, i \in BOOLEAN, m \in Models}

\* GeneratePayload with the text sent as the lyrics too
GeneratePayloadPromptFilled(a) ==
    ("gpt_description_prompt" :> a.prompt) @@ ("prompt" :> a.prompt) @@
    ("mv" :> a.model) @@ ("make_instrumental" :> a.make_instrumental)

\* lines 349-355: the payload of generate
GeneratePayload(a) ==
    ("gpt_description_prompt" :> a.prompt) @@ ("prompt" :> "") @@
    ("mv" :> a.model) @@ ("make_instrumental" :> a.make_instrumental)

\* CleanNone with nothing removed
CleanNoneKept(d) == d

\* line 395: the entries whose value is None are dropped (make_instrumental is a
\* bool and stays)
CleanNone(d) ==
    [k \in {j \in DOMAIN d : j = "make_instrumental" \/ d[j] # NoneText} |-> d[k]]

\* lines 385-393: the payload of custom_generate before the cleaning
CustomPayload(a) ==
    ("prompt" :> a.prompt) @@ ("tags" :> a.tags) @@ ("title" :> a.title) @@
    ("mv" :> a.model) @@ ("make_instrumental" :> a.make_instrumental) @@
    ("gpt_description_prompt" :> NoneText)

\* generate builds its payload and calls _generate_request (lines 349-356)
BuildGenerate ==
    /\ args.mode = "generate"
    /\ built = <<>>
    /\ built' = GeneratePayload(args)
    /\ UNCHANGED <<credVars, pc, frameVars, callVars, pollVars, now, result, ctorVars, args>>
    /\ UNCHANGED <<serverVars, concVars, getVars>>

\* custom_generate builds its payload and calls _generate_request (lines 385-396)
BuildCustom ==
    /\ args.mode = "custom"
    /\ built = <<>>
    /\ built' = CleanNone(CustomPayload(args))
    /\ UNCHANGED <<credVars, pc, frameVars, callVars, pollVars, now, result, ctorVars, args>>
    /\ UNCHANGED <<serverVars, concVars, getVars>>

----------------------------------------------------------------------------
(* Construction: SunoAdapter.__init__ and _extract_sid_from_cookie *)

\* the segments a cookie string is made of; "sid=" is matched as a whole
CookieChars == {"sid=", ";", " ", "a", "b"}
Cookies == SeqsUpTo(CookieChars, MaxCookieLen)
Configs == [SUNO_COOKIE : {None, <<"a">>, <<"sid=", "b">>},
            SUNO_SESSION_ID : {None, <<"env">>}]

\* Python's truth value of an optional string
Falsy(v) == v = None \/ v = <<>>

\* str.split(sep): the pieces between the occurrences of sep
RECURSIVE SplitOn(_, _)
SplitOn(s, sep) ==
    IF \A i \in DOMAIN s : s[i] # sep THEN <<s>>
    ELSE LET k == CHOOSE i \in DOMAIN s : s[i] = sep /\ \A j \in 1..(i - 1) : s[j] # sep
         IN  <<SubSeq(s, 1, k - 1)>> \o SplitOn(SubSeq(s, k + 1, Len(s)), sep)

RECURSIVE LStrip(_)
LStrip(s) == IF s # <<>> /\ Head(s) = " " THEN LStrip(Tail(s)) ELSE s
RECURSIVE RStrip(_)
RStrip(s) == IF s # <<>> /\ s[Len(s)] = " " THEN RStrip(SubSeq(s, 1, Len(s) - 1)) ELSE s
\* str.strip()
Strip(s) == RStrip(LStrip(s))

\* lines 77-84: the text after "sid=" in the first part that contains it
RECURSIVE SidOfParts(_)
SidOfParts(parts) ==
    IF parts = <<>> THEN None
    ELSE IF "sid=" \in Range(Head(parts)) THEN Strip(SplitOn(Head(parts), "sid=")[2])
    ELSE SidOfParts(Tail(parts))

ExtractSidFromCookie(cookie_str) == SidOfParts(SplitOn(cookie_str, ";"))

\* line 45: cookie or config.SUNO_COOKIE
CookieOf(arg, cfg) == IF Falsy(arg) THEN cfg.SUNO_COOKIE ELSE arg

\* lines 50-54: the sid of the cookie, else config.SUNO_SESSION_ID
SessionIdOf(sid, cfg) == IF Falsy(sid) THEN cfg.SUNO_SESSION_ID ELSE sid

\* InitOutcome with neither check made
InitOutcomeUnchecked(ck, sess, url) == "ok"

\* lines 48-49 and 51-56: the two checks of __init__; the base URL plays no part
InitOutcome(ck, sess, url) ==
    IF Falsy(ck) THEN "ValueError: Suno cookie must be provided"
    ELSE IF Falsy(sess) THEN "ValueError: Could not find 'sid' in cookie"
    ELSE "ok"

\* SunoAdapter(cookie, base_url): lines 45-75
Construct ==
    /\ constructed = "new"
    /\ LET ck == CookieOf(cookie, config)
           sid == IF Falsy(ck) THEN None ELSE ExtractSidFromCookie(ck)
           sess == SessionIdOf(sid, config)
           outcome == InitOutcome(ck, sess, base_url)
       IN  /\ constructed' = outcome
           /\ sid_from_cookie' = sid
           /\ session_id' = IF Falsy(ck) THEN None ELSE sess
           /\ IF outcome = "ok"
              THEN \E seed \in SeedTokens :
                     /\ token' = seed
                     /\ auth_header' = UpdateHeaders(seed, NoToken)
              ELSE UNCHANGED <<token, auth_header>>
    /\ UNCHANGED <<base_url, cookie, config, pc, result>>
    /\ UNCHANGED <<frameVars, callVars, pollVars, now, payloadVars, serverVars, concVars, getVars>>

----------------------------------------------------------------------------
(* Tool layer: src/main.py *)

\* the values SUNO_API_BASE_URL can be configured to (line 30; the first is the default)
ServerUrls ==
    {<<"http://", "localhost:", "3000">>,
     <<"http://", "127.0.0.1:", "3000">>,
     <<"http://", "localhost">>,
     <<"localhost:", "3000">>,
     DEFAULT_BASE_URL}

\* urlparse(url).netloc: what follows the scheme (no URL of ServerUrls has a path)
Netloc(url) == IF url # <<>> /\ Head(url) \in {"http://", "https://"} THEN Tail(url) ELSE <<>>

\* "localhost" in netloc or "127.0.0.1" in netloc
HasLocalHost(netloc) ==
    \E i \in DOMAIN netloc : netloc[i] \in {"localhost:", "localhost", "127.0.0.1:", "127.0.0.1"}

\* lines 96-97, 192-193 and 362-363: the mock is used unless the URL has a local host
UsesMock(url) == Netloc(url) = <<>> \/ ~HasLocalHost(Netloc(url))

NoToolResult == [kind |-> "none", text |-> "", uri |-> ""]
Text(t, id) == [kind |-> "text", text |-> t, uri |-> id]
Bytes(t) == [kind |-> "bytes", text |-> t, uri |-> ""]
ToolRaises(t) == [kind |-> "ValueError", text |-> t, uri |-> ""]

\* the records the tools tell apart (lines 113-131): a complete clip, first
\* or not, an errored one, an unfinished one, and one without an id
ToolClips ==
    {[id |-> "A", status |-> "complete"], [id |-> "B", status |-> "complete"],
     [id |-> "A", status |-> "error"], [id |-> "A", status |-> "streaming"],
     [id |-> NoId, status |-> "submitted"]}

\* what generate / custom_generate of the adapter can return or raise
AdapterOutcomes ==
    {Value(cs) : cs \in SeqsUpTo(ToolClips, MaxFeed)}
    \cup {Failure(<<"Timeout waiting for clips to complete">>, ids) : ids \in {<<"A">>, <<"A", "B">>}}
    \cup {Failure(<<"API rate limit exceeded">>, <<>>), Failure(<<"TypeError">>, <<>>)}

Successful(cs) == SelectSeq(cs, LAMBDA c : c.status = "complete" /\ c.id # NoId)

\* ToolText with the URI of the first clip given whatever its status
ToolTextFirstClip(out, w) ==
    IF out.state = "error" THEN Text("Error during " \o w \o " generation", "")
    ELSE IF out.clips = <<>> THEN Text("generation failed or returned no clips", "")
    ELSE Text("Generated song", out.clips[1].id)

\* lines 108-146 and 205-243: the text a tool makes of the adapter's outcome;
\* w names the tool in the messages
ToolText(out, w) ==
    IF out.state = "error"
    THEN IF out.err = <<"TypeError">>
         THEN Text("An unexpected error occurred during " \o w \o " generation", "")
         ELSE Text("Error during " \o w \o " generation", "")
    ELSE IF out.clips = <<>> THEN Text("generation failed or returned no clips", "")
    ELSE IF Successful(out.clips) = <<>>
    THEN IF \E i \in DOMAIN out.clips : out.clips[i].status = "error"
         THEN Text("generation failed. Errors", "")
         ELSE Text("No successful clips produced.", "")
    ELSE Text("Generated song", Successful(out.clips)[1].id)

\* RegisteredAtImport with the second tool forgotten
RegisteredAtImportShort == {"generate_song"}

\* lines 346-347: the tool names added when the module is imported
RegisteredAtImport == {"generate_song", "custom_generate_song"}

\* the module body of main.py runs to its end (lines 41-42 set up the two sets,
\* lines 346-348 fill them)
LoadModule ==
    /\ server = "importing"
    /\ registered_tools' = registered_tools \cup RegisteredAtImport
    /\ registered_resource_handlers' = registered_resource_handlers \cup {"suno"}
    /\ server' = "loaded"
    /\ UNCHANGED <<SUNO_API_BASE_URL, suno_client, tool_result>>
    /\ UNCHANGED <<credVars, pc, frameVars, callVars, pollVars, now, result, ctorVars, payloadVars>>
    /\ UNCHANGED <<concVars, getVars>>

\* init_suno_client (lines 352-400)
InitSunoClient ==
    /\ server = "loaded"
    /\ server' = "ready"
    /\ IF UsesMock(SUNO_API_BASE_URL)
       THEN /\ suno_client' = "MockSunoAdapter"
            /\ UNCHANGED <<credVars, ctorVars>>
       ELSE LET ck == CookieOf(config.SUNO_COOKIE, config)
                sid == IF Falsy(ck) THEN None ELSE ExtractSidFromCookie(ck)
                sess == SessionIdOf(sid, config)
                outcome == InitOutcome(ck, sess, SUNO_API_BASE_URL)
            IN  /\ cookie' = config.SUNO_COOKIE
                /\ base_url' = SUNO_API_BASE_URL
                /\ constructed' = outcome
                /\ sid_from_cookie' = sid
                /\ session_id' = IF Falsy(ck) THEN None ELSE sess
                /\ config' = config
                /\ IF outcome = "ok"
                   THEN /\ suno_client' = "SunoAdapter"
                        /\ \E seed \in SeedTokens : \E c \in ClerkResponses(seed) :
                             LET o == RefreshToken(SUNO_API_BASE_URL, seed, c) IN
                             /\ token' = o.token
                             /\ auth_header' = UpdateHeaders(o.token, UpdateHeaders(seed, NoToken))
                   ELSE /\ suno_client' = "None"
                        /\ UNCHANGED <<token, auth_header>>
    /\ UNCHANGED <<SUNO_API_BASE_URL, registryVars, tool_result>>
    /\ UNCHANGED <<pc, frameVars, callVars, pollVars, now, result, payloadVars, concVars, getVars>>

\* a tool call: w = "simple" for generate_song (lines 60-147), "custom" for
\* custom_generate_song (lines 151-244)
\* lines 80-146 and 175-243: what a tool returns; out is the outcome of the
\* adapter when the call is forwarded to it
ToolReturn(w, mock_id, ctx, out) ==
    IF ~ctx THEN Text("Error: MCP Context not available.", "")
    ELSE IF suno_client = "None" \/ UsesMock(SUNO_API_BASE_URL)
    THEN Text("Generated song", mock_id)
    ELSE ToolText(out, w)

\* lines 80-97: the call reaches suno_client.generate / custom_generate
Forwarded(ctx) == ctx /\ suno_client # "None" /\ ~UsesMock(SUNO_API_BASE_URL)

\* the tool generate_song (lines 60-147)
GenerateSong ==
    /\ server \in {"loaded", "ready"}
    /\ \E ctx \in BOOLEAN :
         IF Forwarded(ctx)
         THEN \E out \in AdapterOutcomes :
                /\ tool_result' = ToolReturn("simple", "test-song-id-123", ctx, out)
                /\ result' = out
         ELSE /\ tool_result' = ToolReturn("simple", "test-song-id-123", ctx, NoResult)
              /\ result' = result
    /\ UNCHANGED <<SUNO_API_BASE_URL, registryVars, suno_client, server>>
    /\ UNCHANGED <<credVars, pc, frameVars, callVars, pollVars, now, ctorVars, payloadVars>>
    /\ UNCHANGED <<concVars, getVars>>

\* the tool custom_generate_song (lines 151-244)
CustomGenerateSong ==
    /\ server \in {"loaded", "ready"}
    /\ \E ctx \in BOOLEAN :
         IF Forwarded(ctx)
         THEN \E out \in AdapterOutcomes :
                /\ tool_result' = ToolReturn("custom", "test-custom-song-id-456", ctx, out)
                /\ result' = out
         ELSE /\ tool_result' = ToolReturn("custom", "test-custom-song-id-456", ctx, NoResult)
              /\ result' = result
    /\ UNCHANGED <<SUNO_API_BASE_URL, registryVars, suno_client, server>>
    /\ UNCHANGED <<credVars, pc, frameVars, callVars, pollVars, now, ctorVars, payloadVars>>
    /\ UNCHANGED <<concVars, getVars>>

\* the resource handler get_suno_audio (lines 249-343)
GetSunoAudio ==
    /\ server \in {"loaded", "ready"}
    /\ \E song_id \in {"test-song-id-123", "A"} :
         IF suno_client = "None"
         THEN tool_result' = IF song_id = "test-song-id-123"
                             THEN Bytes("mock audio")
                             ELSE ToolRaises("Suno client not initialized")
         ELSE \E found \in {"nothing", "complete", "no audio_url", "submitted", "error", "raises"},
                 downloaded \in BOOLEAN :
                tool_result' =
                    IF found = "raises" THEN ToolRaises("Unexpected error")
                    ELSE IF found = "nothing" THEN ToolRaises("Unexpected error: Song ID not found")
                    ELSE IF found = "submitted"
                    THEN ToolRaises("Unexpected error: Song is still processing")
                    ELSE IF found \in {"no audio_url", "error"}
                    THEN ToolRaises("Unexpected error: Song is not available")
                    ELSE IF ~downloaded
                    THEN ToolRaises("Unexpected error: Failed to download audio")
                    ELSE ToolRaises("Unexpected error: unpacking the download")
    /\ UNCHANGED <<SUNO_API_BASE_URL, registryVars, suno_client, server>>
    /\ UNCHANGED <<credVars, pc, frameVars, callVars, pollVars, now, result, ctorVars, payloadVars>>
    /\ UNCHANGED <<concVars, getVars>>

\* cleanup_suno_client (lines 402-407): the client is closed, not dropped
CleanupSunoClient ==
    /\ server \in {"loaded", "ready"}
    /\ server' = "closed"
    /\ UNCHANGED <<SUNO_API_BASE_URL, registryVars, suno_client, tool_result>>
    /\ UNCHANGED <<credVars, pc, frameVars, callVars, pollVars, now, result, ctorVars, payloadVars>>
    /\ UNCHANGED <<concVars, getVars>>

\* the tool layer plays no part
NoServer ==
    /\ SUNO_API_BASE_URL = <<"http://", "localhost:", "3000">>
    /\ registered_tools = {}
    /\ registered_resource_handlers = {}
    /\ suno_client = "None"
    /\ server = "importing"
    /\ tool_result = NoToolResult

\* no generation call has been started as a task
NoTasks ==
    /\ tasks = <<>>
    /\ issued = 0
    /\ last_write = NoToken

----------------------------------------------------------------------------
(* Concurrent generation calls on one adapter *)

\* Each generation call runs as an asyncio task.  A task runs alone from one
\* await that suspends it to the next: a step below is one such stretch of
\* refresh_token, _request, get and _generate_request.  The adapter's token
\* and Authorization header are shared, everything else is the task's own.
Tasks == {1, 2}

\* the task before _generate_request is entered
NewTask(cfg) ==
    [pc |-> "idle", op |-> "none", allowed |-> TRUE,
     pending_jwt |-> NoToken, sent_auth |-> NoToken,
     installed |-> NoToken, raced |-> FALSE,
     timeout |-> cfg.timeout, polling_interval |-> cfg.polling_interval,
     elapsed |-> 0, last_read |-> -1, inflight |-> 0, result |-> "none",
     clip_ids |-> <<>>, query |-> <<>>, returned |-> <<>>]

\* the answers of the service that _request tells apart
TaskAnswers == {[status |-> s, shape |-> "clips"] : s \in {200, 401, 402, 429}}

\* the service gives every submission clip ids of its own
SubmissionIds(t) == IF t = 1 THEN <<"A">> ELSE <<"B">>

\* the feeds a status read is answered with: at most one record for a clip,
\* in the order the clips were created, whichever ids the read asked for
ReadFeeds ==
    {f \in SeqsUpTo(FeedClips, MaxFeed) :
        ClipIds(f) \in {<<>>, <<"A">>, <<"B">>, <<"A", "B">>}}

\* the body of a 200 answer: to a submission the ids of its clips, or none; to
\* a status read a feed, which may hold records nobody asked for
Bodies(t, op) ==
    IF op = "submit" THEN {<<>>, SubmissionIds(t)} ELSE ReadFeeds

\* the task is waiting for the identity provider's answer
ClerkWaits == {"lazy_wait", "refresh_wait", "periodic_wait"}
\* the token is installed, the task is leaving the async with of refresh_token
ClerkExits == {"lazy_exit", "refresh_exit", "periodic_exit"}

\* the token the identity provider will put in its answer, if it puts one
Issue == IF issued < MaxIssued THEN "jwt" \o ToString(issued + 1) ELSE NoToken

\* line 117: the POST to the identity provider is sent and awaited
CallClerk(t, task, p) ==
    /\ tasks' = [tasks EXCEPT ![t] = [task EXCEPT !.pc = p, !.pending_jwt = Issue]]
    /\ issued' = IF issued < MaxIssued THEN issued + 1 ELSE issued
    /\ UNCHANGED <<credVars, last_write>>

\* lines 167, 176: the request is built with the headers of this moment and awaited
SendRequest(t, task, p) ==
    /\ tasks' = [tasks EXCEPT ![t] = [task EXCEPT !.pc = p, !.sent_auth = auth_header]]
    /\ UNCHANGED <<credVars, issued, last_write>>

\* lines 99-104: the refresh of a local client suspends nowhere, the send follows
LocalRefreshAndSend(t, task, p) ==
    /\ token' = LOCAL_TOKEN
    /\ auth_header' = UpdateHeaders(LOCAL_TOKEN, auth_header)
    /\ last_write' = LOCAL_TOKEN
    /\ tasks' = [tasks EXCEPT ![t] =
                    [task EXCEPT !.pc = p, !.installed = LOCAL_TOKEN,
                                 !.sent_auth = UpdateHeaders(LOCAL_TOKEN, auth_header)]]
    /\ UNCHANGED issued

\* lines 158-167: _request is entered
EnterRequest(t, task) ==
    IF NeedsLazyRefresh(token, base_url)
    THEN CallClerk(t, task, "lazy_wait")
    ELSE SendRequest(t, task, "wait")

\* _request is over for the task, which moves on: no request of it is in
\* flight any more (sent_auth and raced describe the one in flight), and the
\* shared credentials stay
Settle(t, task) ==
    /\ tasks' = [tasks EXCEPT ![t] = [task EXCEPT !.sent_auth = NoToken, !.raced = FALSE]]
    /\ UNCHANGED <<credVars, issued, last_write>>

\* PollNext with the sleep left out: the next status read follows at once
PollNextNoSleep(task) ==
    IF WithinBudget(task.elapsed, task.timeout)
    THEN [task EXCEPT !.pc = "periodic_exit"]
    ELSE [task EXCEPT !.pc = "done", !.result = "timeout"]

\* lines 270-271, 324: the loop condition, then the sleep or the timeout
PollNext(task) ==
    IF WithinBudget(task.elapsed, task.timeout)
    THEN [task EXCEPT !.pc = "sleeping"]
    ELSE [task EXCEPT !.pc = "done", !.result = "timeout"]

\* _request has raised: the submission fails the call (line 241), a status
\* read returns the empty list (lines 428-431) and the loop goes on (282)
RequestFailed(task) ==
    IF task.op = "submit"
    THEN [task EXCEPT !.pc = "done", !.result = "error"]
    ELSE PollNext([task EXCEPT !.inflight = @ - 1])

\* _request has returned a body (lines 244-268 for the submission, 277-316
\* for a status read)
RequestOk(task, body) ==
    IF task.op = "submit"
    THEN IF body = <<>>
         THEN [task EXCEPT !.pc = "done", !.result = "value"]
         ELSE PollNext([task EXCEPT !.clip_ids = body])
    ELSE LET feed_of_get == FilterIds(body, task.query) IN
         IF feed_of_get # <<>> /\ AllDone(task.clip_ids, feed_of_get)
         THEN [task EXCEPT !.pc = "done", !.result = "value", !.inflight = @ - 1,
                           !.returned = ClipIds(FinalClips(feed_of_get, task.clip_ids))]
         ELSE PollNext([task EXCEPT !.inflight = @ - 1])

\* ReadIds with the ids of every running call asked for
ReadIdsOfAll(t) == tasks[1].clip_ids \o tasks[2].clip_ids

\* line 277: the ids a status read asks for are the clip_ids local to the call
ReadIds(t) == tasks[t].clip_ids

\* line 277 with lines 409-415: get() enters _request
ReadBegun(t, task) ==
    [task EXCEPT !.op = "read", !.allowed = GetCaptchaFlag,
                 !.inflight = @ + 1, !.last_read = task.elapsed,
                 !.query = ReadIds(t)]

\* InstallToken with a token that an earlier refresh installed kept
InstallTokenFirstWins(cur, new) == IF cur \in {NoToken, "seed"} THEN new ELSE cur

\* line 125: the answer's token replaces whatever the adapter holds
InstallToken(cur, new) == new

\* lines 240-241: the task enters _generate_request and submits
TaskGenerate(t) ==
    /\ tasks[t].pc = "idle"
    /\ EnterRequest(t, [tasks[t] EXCEPT !.op = "submit", !.allowed = TRUE])
    /\ UNCHANGED seqVars

\* lines 167-217: the answer to the first attempt of _request arrives
TaskReceive(t) ==
    /\ tasks[t].pc = "wait"
    /\ \E r \in TaskAnswers :
        LET class == Classify(r, tasks[t].allowed) IN
        IF class = "ok"
        THEN \E body \in Bodies(t, tasks[t].op) : Settle(t, RequestOk(tasks[t], body))
        ELSE IF class = "401"
        THEN IF IsLocalApi(base_url)
             THEN LocalRefreshAndSend(t, tasks[t], "retry_wait")
             ELSE CallClerk(t, tasks[t], "refresh_wait")
        ELSE IF class = "402"
        THEN \E solved \in BOOLEAN :
               IF solved
               THEN EnterRequest(t, [tasks[t] EXCEPT !.allowed = FALSE])
               ELSE Settle(t, RequestFailed(tasks[t]))
        ELSE Settle(t, RequestFailed(tasks[t]))
    /\ UNCHANGED seqVars

\* lines 117-140: the identity provider's answer arrives; a token in it is
\* installed and the headers rewritten before the task can be suspended again
ClerkAnswers(t) ==
    /\ tasks[t].pc \in ClerkWaits
    /\ \E ok \in BOOLEAN :
        IF ok /\ tasks[t].pending_jwt # NoToken
        THEN /\ token' = InstallToken(token, tasks[t].pending_jwt)
             /\ auth_header' = UpdateHeaders(token', auth_header)
             /\ last_write' = tasks[t].pending_jwt
             /\ tasks' = [tasks EXCEPT ![t] =
                    [@ EXCEPT !.pc = CASE @ = "lazy_wait" -> "lazy_exit"
                                       [] @ = "refresh_wait" -> "refresh_exit"
                                       [] OTHER -> "periodic_exit",
                              !.installed = tasks[t].pending_jwt,
                              !.pending_jwt = NoToken,
                              !.raced = \E u \in Tasks \ {t} : tasks[u].pc \in ClerkWaits]]
             /\ UNCHANGED issued
        ELSE Settle(t, IF tasks[t].pc = "periodic_wait"
                       THEN PollNext([tasks[t] EXCEPT !.pending_jwt = NoToken])
                       ELSE RequestFailed([tasks[t] EXCEPT !.pending_jwt = NoToken]))
    /\ UNCHANGED seqVars

\* line 111: the async with of refresh_token is left, which may suspend the
\* task once more; then the request goes out (lines 167, 176, 277)
ClerkClientClosed(t) ==
    /\ tasks[t].pc \in ClerkExits
    /\ CASE tasks[t].pc = "lazy_exit" -> SendRequest(t, tasks[t], "wait")
         [] tasks[t].pc = "refresh_exit" -> SendRequest(t, tasks[t], "retry_wait")
         [] OTHER -> EnterRequest(t, ReadBegun(t, tasks[t]))
    /\ UNCHANGED seqVars

\* lines 176-182: the answer to the retry after a 401 arrives
TaskRetryReceive(t) ==
    /\ tasks[t].pc = "retry_wait"
    /\ \E r \in TaskAnswers :
        IF r.status = 200
        THEN \E body \in Bodies(t, tasks[t].op) : Settle(t, RequestOk(tasks[t], body))
        ELSE Settle(t, RequestFailed(tasks[t]))
    /\ UNCHANGED seqVars

\* lines 271-277: the sleep is over; the periodic refresh if it is due, then
\* the status read
TaskWake(t) ==
    /\ tasks[t].pc = "sleeping"
    /\ LET woken == [tasks[t] EXCEPT !.elapsed = @ + tasks[t].polling_interval] IN
        IF RefreshDue(woken.elapsed)
        THEN IF IsLocalApi(base_url)
             THEN LocalRefreshAndSend(t, ReadBegun(t, woken), "wait")
             ELSE CallClerk(t, woken, "periodic_wait")
        ELSE EnterRequest(t, ReadBegun(t, woken))
    /\ UNCHANGED seqVars

-----------------------------------------------------------------------------
(* Specification *)

\* the state after SunoAdapter.__init__ (lines 45-75)
Init ==
    /\ base_url \in BaseUrls
    /\ token \in SeedTokens
    /\ auth_header = UpdateHeaders(token, NoToken)
    /\ pc = "idle"
    /\ caller = "none"
    /\ method = "none"
    /\ attempt_captcha_solve = TRUE
    /\ depth = 0
    /\ payload = NoPayload
    /\ held = NoResp
    /\ ret = NoRet
    /\ log = <<>>
    /\ timeout = ShortTimeout
    /\ polling_interval = DEFAULT_POLLING_INTERVAL
    /\ wait_audio = TRUE
    /\ clips = <<>>
    /\ clip_ids = <<>>
    /\ now = 0
    /\ start_time = 0
    /\ tick = 0
    /\ reads = 0
    /\ feed_response = <<>>
    /\ firstTerminalTick = [id \in JobIds |-> 0]
    /\ periodic_refresh = "none"
    /\ result = NoResult
    /\ cookie = <<"sid=", "a">>
    /\ config = [SUNO_COOKIE |-> None, SUNO_SESSION_ID |-> None]
    /\ sid_from_cookie = <<"a">>
    /\ session_id = <<"a">>
    /\ constructed = "ok"
    /\ args = NoArgs
    /\ built = <<>>
    /\ NoServer
    /\ NoTasks
    /\ get_ids = <<>>

Next ==
    \/ Generate
    \/ RequestBegin
    \/ RequestSend
    \/ Request401Refresh
    \/ Request401Retry
    \/ Request402
    \/ AfterSubmit
    \/ PollSleep
    \/ PollTimeout
    \/ PollRefresh
    \/ AfterRead

Spec == Init /\ [][Next]_vars

\* no operation of the adapter is running
Idle ==
    /\ pc = "idle"
    /\ caller = "none"
    /\ method = "none"
    /\ attempt_captcha_solve = TRUE
    /\ depth = 0
    /\ payload = NoPayload
    /\ held = NoResp
    /\ ret = NoRet
    /\ log = <<>>
    /\ timeout = ShortTimeout
    /\ polling_interval = DEFAULT_POLLING_INTERVAL
    /\ wait_audio = TRUE
    /\ clips = <<>>
    /\ clip_ids = <<>>
    /\ now = 0
    /\ start_time = 0
    /\ tick = 0
    /\ reads = 0
    /\ feed_response = <<>>
    /\ firstTerminalTick = [id \in JobIds |-> 0]
    /\ periodic_refresh = "none"
    /\ result = NoResult

\* the arguments and the configuration a construction can meet;
\* config.SUNO_COOKIE is read only when the argument is empty (line 45)
InitCtor ==
    /\ Idle
    /\ base_url \in BaseUrls
    /\ token = NoToken
    /\ auth_header = NoToken
    /\ cookie \in Cookies
    /\ config \in Configs
    /\ cookie # <<>> => config.SUNO_COOKIE = None
    /\ sid_from_cookie = None
    /\ session_id = None
    /\ constructed = "new"
    /\ args = NoArgs
    /\ built = <<>>
    /\ NoServer
    /\ NoTasks
    /\ get_ids = <<>>

NextCtor == Construct

\* the adapter as Init leaves it
Constructed ==
    /\ cookie = <<"sid=", "a">>
    /\ config = [SUNO_COOKIE |-> None, SUNO_SESSION_ID |-> None]
    /\ sid_from_cookie = <<"a">>
    /\ session_id = <<"a">>
    /\ constructed = "ok"

\* a call of generate or custom_generate with arguments of the caller's choice
InitPayload ==
    /\ Idle
    /\ Constructed
    /\ base_url \in BaseUrls
    /\ token = NoToken
    /\ auth_header = NoToken
    /\ args \in GenerateArgs \cup CustomArgs
    /\ built = <<>>
    /\ NoServer
    /\ NoTasks
    /\ get_ids = <<>>

NextPayload == BuildGenerate \/ BuildCustom

SpecPayload == InitPayload /\ [][NextPayload]_vars

\* main.py is being imported: lines 30-49 have run
InitServer ==
    /\ Idle
    /\ base_url = DEFAULT_BASE_URL
    /\ token = NoToken
    /\ auth_header = NoToken
    /\ cookie = None
    /\ config \in Configs
    /\ sid_from_cookie = None
    /\ session_id = None
    /\ constructed = "new"
    /\ args = NoArgs
    /\ built = <<>>
    /\ SUNO_API_BASE_URL \in ServerUrls
    /\ registered_tools = {}
    /\ registered_resource_handlers = {}
    /\ suno_client = "None"
    /\ server = "importing"
    /\ tool_result = NoToolResult
    /\ NoTasks
    /\ get_ids = <<>>

NextServer ==
    \/ LoadModule
    \/ InitSunoClient
    \/ GenerateSong
    \/ CustomGenerateSong
    \/ GetSunoAudio
    \/ CleanupSunoClient

SpecServer == InitServer /\ [][NextServer]_vars

SpecCtor == InitCtor /\ [][NextCtor]_vars

\* get() is called on a constructed adapter that runs no generation call
InitGet ==
    /\ Idle
    /\ Constructed
    /\ base_url \in BaseUrls
    /\ token \in SeedTokens
    /\ auth_header = UpdateHeaders(token, NoToken)
    /\ args = NoArgs
    /\ built = <<>>
    /\ NoServer
    /\ NoTasks
    /\ get_ids = <<>>

\* a get() never has challenge handling on, so the 402 branch plays no part
NextGet ==
    \/ Get
    \/ RequestBegin
    \/ RequestSend
    \/ Request401Refresh
    \/ Request401Retry
    \/ AfterGet

SpecGet == InitGet /\ [][NextGet]_vars

\* a step of a running call: an outbound call returns or the sleep ends
CallStep ==
    \/ RequestBegin
    \/ RequestSend
    \/ Request401Refresh
    \/ Request401Retry
    \/ Request402
    \/ AfterSubmit
    \/ PollSleep
    \/ PollTimeout
    \/ PollRefresh
    \/ AfterRead

\* time advances and every awaited call returns: a running call is not left
\* suspended for ever
SpecLive == Init /\ [][Next]_vars /\ WF_vars(CallStep)

\* the polling settings the concurrent calls are started with
TaskConfigs ==
    {[timeout |-> ShortTimeout, polling_interval |-> DEFAULT_POLLING_INTERVAL],
     [timeout |-> LongTimeout, polling_interval |-> LongInterval]}

\* two generation calls are about to run on one constructed adapter
InitConc ==
    /\ Idle
    /\ Constructed
    /\ base_url \in BaseUrls
    /\ token \in SeedTokens
    /\ auth_header = token
    /\ args = NoArgs
    /\ built = <<>>
    /\ NoServer
    /\ tasks \in [Tasks -> {NewTask(cfg) : cfg \in TaskConfigs}]
    /\ issued = 0
    /\ last_write = token
    /\ get_ids = <<>>

NextConc ==
    \E t \in Tasks :
        \/ TaskGenerate(t)
        \/ TaskReceive(t)
        \/ ClerkAnswers(t)
        \/ ClerkClientClosed(t)
        \/ TaskRetryReceive(t)
        \/ TaskWake(t)

SpecConc == InitConc /\ [][NextConc]_vars

----------------------------------------------------------------------------
(* Properties of the request executor *)

Count(o) == Cardinality({i \in DOMAIN log : log[i].op = o})
IsLast(i) == i = Len(log)
\* a refresh that installed a token, a solve that produced one
Succeeded(e) == e.issued # NoToken

\* C1: a 401 answer to the first attempt of _request is followed by exactly one
\* refresh_token call and, when that refresh succeeds, by exactly one retry; the
\* retry ends the call, and a 401 answer to it makes the call fail: there is no
\* third request and no second refresh.
C1_Single401Recovery ==
    \A i \in DOMAIN log :
        (log[i].op = "request" /\ log[i].status = 401) =>
            /\ IsLast(i) => pc = "req_401"
            /\ ~IsLast(i) => log[i + 1].op = "refresh"
            /\ IsLast(i + 1) =>
                 IF Succeeded(log[i + 1])
                 THEN pc = "req_401_retry"
                 ELSE pc = "returned" /\ ~ret.ok
            /\ i + 1 < Len(log) =>
                 /\ Succeeded(log[i + 1])
                 /\ log[i + 2].op = "retry"
                 /\ IsLast(i + 2)
                 /\ pc = "returned"
                 /\ log[i + 2].status = 401 => ~ret.ok
            /\ Count("refresh") = (IF IsLast(i) THEN 0 ELSE 1)

\* C1 witness: the retry that followed the refresh was answered 401 and the call failed
C1_Witness ==
    /\ pc = "returned"
    /\ Len(log) = 3
    /\ log[1].op = "request" /\ log[1].status = 401
    /\ log[2].op = "refresh" /\ Succeeded(log[2])
    /\ log[3].op = "retry" /\ log[3].status = 401
    /\ ~ret.ok

\* C2: after a 402 with a site-key, challenge handling allowed and a successful
\* solve, the call is re-issued exactly once with challenge handling off, every
\* request sent from then on carries captcha_token equal to the solver's output,
\* the solver is never invoked a second time, and a 402 answer to the re-issued
\* request ends the call with a failure.
C2_SingleChallengeRetry ==
    \A i \in DOMAIN log :
        (log[i].op = "solve" /\ Succeeded(log[i])) =>
            /\ log[i].allowed
            /\ log[i - 1].op = "request" /\ log[i - 1].status = 402
            /\ Count("solve") = 1
            /\ IsLast(i) =>
                 /\ pc \in {"req_begin", "req_send"}
                 /\ payload.captcha_token = log[i].issued
            /\ ~IsLast(i) =>
                 /\ log[i + 1].op = "request"
                 /\ Cardinality({j \in DOMAIN log : j > i /\ log[j].op = "request"}) = 1
            /\ \A j \in DOMAIN log :
                 (j > i /\ log[j].op \in {"request", "retry"}) =>
                    /\ log[j].captcha_token = log[i].issued
                    /\ log[j].captcha_token \in CaptchaTokens
                    /\ ~log[j].allowed
            /\ \A j \in DOMAIN log :
                 (j > i /\ log[j].status = 402) =>
                    IsLast(j) /\ pc = "returned" /\ ~ret.ok

\* C2 witness: the request re-issued after the solve was answered 402 and the call failed
C2_Witness ==
    /\ pc = "returned"
    /\ Len(log) = 3
    /\ log[1].op = "request" /\ log[1].status = 402
    /\ log[2].op = "solve" /\ log[2].issued = "solved2"
    /\ log[3].op = "request" /\ log[3].status = 402 /\ log[3].captcha_token = "solved2"
    /\ ~ret.ok

InRequest == pc \in {"req_begin", "req_send", "req_401", "req_401_retry", "req_402"}
RequestStep ==
    RequestBegin \/ RequestSend \/ Request401Refresh \/ Request401Retry \/ Request402

\* C3: one logical _request sends at most three requests to the remote API (the
\* first attempt, at most one re-issue after a challenge solve and at most one
\* retry after a refresh), calls refresh_token at most twice (the lazy one and
\* the one a 401 triggers) and the solver at most once, can always take its next
\* step, and has returned a body or raised when it is over.
C3_BoundedRecovery ==
    /\ Count("retry") <= 1
    /\ Count("solve") <= 1
    /\ Count("refresh") <= 1
    /\ Count("lazy_refresh") <= 1
    /\ Count("request") <= 2
    /\ Count("request") <= 1 + Cardinality({i \in DOMAIN log : log[i].op = "solve" /\ Succeeded(log[i])})
    /\ Len(log) <= 6
    /\ InRequest => ENABLED RequestStep
    /\ pc = "returned" => (ret.ok \/ ret.err # <<>>) /\ ~(ret.ok /\ ret.err # <<>>)

\* C3 witness: a call that used both recoveries: a solve, the re-issue answered 401,
\* a refresh and the retry
C3_Witness ==
    /\ pc = "returned"
    /\ Count("solve") = 1
    /\ Count("refresh") = 1
    /\ Count("request") = 2
    /\ Count("retry") = 1

----------------------------------------------------------------------------
(* Properties of the poll session *)

\* the generation call went into the polling loop
Polled == wait_audio /\ clip_ids # <<>>
InPoll ==
    \/ pc \in {"poll_check", "poll_refresh"}
    \/ (caller = "poll" /\ (InRequest \/ pc = "returned"))
IsTimeout(r) == r.state = "error" /\ r.err = <<"Timeout waiting for clips to complete">>
\* the snapshot of the tick shows every id of the session with a terminal status
SnapshotAllTerminal ==
    /\ feed_response # <<>>
    /\ \A id \in Range(clip_ids) : IsTerminal(FindClip(feed_response, id).status)
ObservedTerminal == {id \in Range(clip_ids) : firstTerminalTick[id] > 0}

\* C4: a non-empty result of a generation call with wait_audio holds a record for
\* every job id of the submission, and every record in it has a terminal status.
C4_CompleteTerminalResult ==
    (pc = "done" /\ wait_audio /\ result.state = "value" /\ result.clips # <<>>) =>
        /\ \A id \in Range(clip_ids) : \E i \in DOMAIN result.clips : result.clips[i].id = id
        /\ \A i \in DOMAIN result.clips : IsTerminal(result.clips[i].status)

\* C5: the timeout error names exactly the ids that were not yet observed terminal.
C5_TimeoutNamesPending ==
    (pc = "done" /\ IsTimeout(result)) =>
        Range(result.names) = Range(clip_ids) \ ObservedTerminal

\* C6: a poll session ends as Done (a record set is returned) or as TimedOut (the
\* timeout error, raised only once the budget is used up) and in no other way;
\* while it runs, a failed read, an empty or malformed feed or a failed periodic
\* refresh raises nothing and leaves it polling.
C6_OnlyDoneOrTimedOut ==
    /\ InPoll => (Polled /\ result = NoResult)
    /\ (pc = "done" /\ Polled) =>
          \/ result.state = "value" /\ SnapshotAllTerminal
          \/ IsTimeout(result) /\ now - start_time >= timeout
    /\ (pc = "poll_check" /\ tick > reads) => result = NoResult
    /\ (pc = "poll_check" /\ ~ret.ok) => (feed_response = <<>> /\ result = NoResult)

\* C6 witness: a session in which a periodic refresh failed (its tick has no read)
\* and the last read was rate-limited, and which ended as TimedOut
C6_Witness ==
    /\ pc = "done"
    /\ IsTimeout(result)
    /\ reads < tick
    /\ ret.err = <<"API rate limit exceeded">>

C9_AbsentIdStaysPending ==
    [][(/\ pc = "returned"
        /\ caller = "poll"
        /\ \E id \in Range(clip_ids) : FindClip(feed_response', id) = NoClip)
       => (pc' = "poll_check" /\ result' = NoResult)]_vars

\* C9 witness: a snapshot with a terminal record for A and none for B, session polling
C9_Witness ==
    /\ pc = "poll_check"
    /\ clip_ids = <<"A", "B">>
    /\ IsTerminal(FindClip(feed_response, "A").status)
    /\ FindClip(feed_response, "B") = NoClip
    /\ result = NoResult

\* C10: every tick of a polling session has issued one status read, whatever the
\* periodic refresh of the tick did.
C10_ReadEveryTick ==
    (pc = "poll_check" /\ Polled) => reads = tick

----------------------------------------------------------------------------
(* Properties of the credentials *)

\* the requests of the log that went to the remote API
Sent == {i \in DOMAIN log : log[i].op \in {"request", "retry"}}
\* the refresh_token calls of the log
Refreshes == {i \in DOMAIN log : log[i].op \in {"lazy_refresh", "refresh"}}

\* C12: with a base URL that is not local, every request sent to the remote API
\* (a first attempt, the retry after a 401, the re-issue after a challenge solve,
\* a status read of the poller) carries a non-empty bearer token, and the client
\* is about to send only while its token is non-empty.
C12_NonEmptyBearer ==
    ~IsLocalApi(base_url) =>
        /\ \A i \in Sent : log[i].auth # NoToken
        /\ pc \in {"req_send", "req_401_retry"} => (token # NoToken /\ auth_header # NoToken)

\* C12 witness: a client without a seed token fetched one lazily, was answered
\* 402, solved the challenge and re-issued the request with the bearer token
C12_Witness ==
    /\ ~IsLocalApi(base_url)
    /\ Len(log) = 4
    /\ log[1].op = "lazy_refresh" /\ log[1].auth = NoToken
    /\ log[2].op = "request" /\ log[2].status = 402
    /\ log[3].op = "solve"
    /\ log[4].op = "request" /\ log[4].auth = log[1].issued /\ log[4].auth # NoToken

\* C13: a client with a local base URL makes no token call over the network, in
\* _request or in the periodic refresh of a poll, and every request it sends
\* carries the placeholder token.
C13_LocalPlaceholderOnly ==
    IsLocalApi(base_url) =>
        /\ \A i \in Refreshes : ~log[i].net
        /\ periodic_refresh \in {"none", "local"}
        /\ \A i \in Sent : log[i].auth = LOCAL_TOKEN

\* refresh_token has left the token and the header in step, and the refresh that
\* the log ends with has either installed its token in both or changed neither
RefreshSettled ==
    /\ auth_header = token
    /\ \A i \in Refreshes :
          IsLast(i) =>
             IF Succeeded(log[i])
             THEN /\ token = log[i].issued
                  /\ auth_header = log[i].issued
                  /\ pc \in {"req_send", "req_401_retry"}
             ELSE /\ token = log[i].auth
                  /\ auth_header = log[i].auth
                  /\ pc = "returned"
                  /\ ~ret.ok
                  /\ ret.err # <<>>
    /\ \A i \in Sent : log[i].auth = (IF i = Len(log) THEN token ELSE log[i].auth)

\* C14: refresh_token is all-or-nothing. After every step the token and the
\* Authorization header agree; a refresh made by _request that returned has set
\* both to the issued token, and one that failed (no answer, a non-2xx answer, a
\* 2xx answer without jwt) has raised and changed neither; the same holds for
\* the periodic refresh of the poller.
C14_RefreshAllOrNothing ==
    [][/\ RefreshSettled'
       /\ (pc = "poll_refresh" /\ periodic_refresh' # "none") =>
             IF periodic_refresh' = "failed"
             THEN token' = token /\ auth_header' = auth_header /\ pc' = "poll_check"
             ELSE /\ token' # NoToken
                  /\ auth_header' = token'
                  /\ IsLocalApi(base_url) \/ token' # token]_vars

\* C14 witness: the refresh after a 401 was answered 200 without a jwt: the call
\* failed and the token it held is still in place
C14_Witness ==
    /\ pc = "returned"
    /\ ~ret.ok
    /\ log # <<>>
    /\ log[Len(log)].op = "refresh"
    /\ log[Len(log)].status = 200
    /\ ~Succeeded(log[Len(log)])
    /\ token # NoToken
    /\ token = log[Len(log)].auth
    /\ auth_header = token

----------------------------------------------------------------------------
(* Properties of the error paths of _request *)

LastEntry == log[Len(log)]
InChain(msg) == \E k \in DOMAIN ret.err : ret.err[k] = msg

C16_NetworkErrorKind ==
    \A i \in Sent :
        log[i].status = 0 =>
            /\ IsLast(i)
            /\ pc = "returned"
            /\ ~ret.ok
            /\ InChain("Network error connecting to Suno API")

\* C17: after a 402 with challenge handling on, a body without a site-key (or
\* one that is not JSON) fails the call with the challenge error and the solver
\* is not invoked; a solver that returns nothing fails the call with the
\* challenge error; in both cases the 402 request is the last one sent.
C17_ChallengeRequired ==
    /\ pc = "req_402" => (held.status = 402 /\ attempt_captcha_solve)
    /\ (/\ pc = "returned"
        /\ log # <<>>
        /\ LastEntry.op = "request" /\ LastEntry.status = 402 /\ LastEntry.allowed) =>
          /\ held.shape = "invalid" \/ held.sitekey = ""
          /\ Count("solve") = 0
          /\ ~ret.ok
          /\ Head(ret.err) = "Error processing CAPTCHA challenge"
          /\ held.shape # "invalid" =>
                ret.err[2] = "CAPTCHA required (402) but sitekey missing"
    /\ \A i \in DOMAIN log :
          log[i].op = "solve" =>
             /\ held.shape # "invalid" /\ held.sitekey # ""
             /\ log[i - 1].op = "request" /\ log[i - 1].status = 402 /\ log[i - 1].allowed
             /\ ~Succeeded(log[i]) =>
                   /\ IsLast(i)
                   /\ pc = "returned"
                   /\ ret = Err(<<"Error processing CAPTCHA challenge",
                                  "CAPTCHA required but solving failed">>)

\* C17 witness: a 402 whose body has no site-key failed the call, no solve made
C17_Witness ==
    /\ pc = "returned"
    /\ log # <<>>
    /\ LastEntry.op = "request" /\ LastEntry.status = 402
    /\ held.shape # "invalid" /\ held.sitekey = ""
    /\ Count("solve") = 0
    /\ ret = Err(<<"Error processing CAPTCHA challenge",
                   "CAPTCHA required (402) but sitekey missing">>)

----------------------------------------------------------------------------
(* Properties of the submission *)

\* the submission has returned a response with a clips field
SubmissionParsed ==
    /\ pc = "returned"
    /\ caller = "submit"
    /\ ret.ok
    /\ ret.resp.shape = "clips_dict"

\* C18: with wait_audio, a submission answered with no clip id and no error
\* field makes the generation call return an empty list, not a failure, and the
\* call makes no status read.
C18_EmptySubmission ==
    [][(/\ SubmissionParsed
        /\ wait_audio
        /\ ClipIds(ret.resp.clips) = <<>>
        /\ ret.resp.error = "")
       => (/\ pc' = "done"
           /\ result' = Value(<<>>)
           /\ tick' = 0
           /\ reads' = 0)]_vars

\* C18 witness: a call with wait_audio that ended with an empty list and no read
C18_Witness ==
    /\ pc = "done"
    /\ wait_audio
    /\ clip_ids = <<>>
    /\ result = Value(<<>>)
    /\ reads = 0

\* C19: without wait_audio the call returns the clips of the submission response
\* as they are, and it never enters the polling loop: no sleep (the clock and
\* the tick count stay at 0), no status read and no periodic refresh.
C19_NoWaitSkipsPoller ==
    [][/\ (/\ SubmissionParsed
           /\ ~wait_audio
           /\ ClipIds(ret.resp.clips) # <<>>)
          => (pc' = "done" /\ result' = Value(ret.resp.clips))
       /\ ~wait_audio' =>
             /\ ~InPoll'
             /\ now' = 0
             /\ tick' = 0
             /\ reads' = 0
             /\ periodic_refresh' = "none"]_vars

\* C19 witness: a call without wait_audio returned two clips still "submitted"
C19_Witness ==
    /\ pc = "done"
    /\ ~wait_audio
    /\ result.state = "value"
    /\ Len(result.clips) = 2
    /\ clip_ids = <<"A", "B">>
    /\ \A i \in DOMAIN result.clips : result.clips[i].status = "submitted"
    /\ tick = 0
    /\ reads = 0

\* C20: on a client that is not local, _request calls refresh_token first
\* exactly when it holds no token: a first log entry that is a request was sent
\* with a token the client already held; a lazy refresh was made with no token
\* held; when it failed its error is the error of the call and nothing was sent;
\* when it succeeded the request that follows carries the token it issued.
C20_LazyRefreshFirst ==
    ~IsLocalApi(base_url) =>
        /\ (pc = "req_send" /\ log = <<>>) => token # NoToken
        /\ \A i \in DOMAIN log :
              log[i].op = "lazy_refresh" =>
                 /\ i = 1
                 /\ log[i].auth = NoToken
                 /\ log[i].net
                 /\ ~Succeeded(log[i]) =>
                       /\ Len(log) = 1
                       /\ pc = "returned"
                       /\ ~ret.ok
                       /\ \E c \in ClerkResponses(NoToken) :
                             ret.err = RefreshToken(base_url, NoToken, c).err
                 /\ (Succeeded(log[i]) /\ IsLast(i)) => pc = "req_send"
                 /\ (Succeeded(log[i]) /\ ~IsLast(i)) =>
                       /\ log[i + 1].op = "request"
                       /\ log[i + 1].auth = log[i].issued
        /\ (log # <<>> /\ log[1].op = "request") => log[1].auth # NoToken

\* C20 witness: the lazy refresh of a submission got no answer from Clerk and the
\* call failed with no request sent
C20_Witness ==
    /\ ~IsLocalApi(base_url)
    /\ pc = "returned"
    /\ caller = "submit"
    /\ Len(log) = 1
    /\ log[1].op = "lazy_refresh" /\ log[1].status = 0
    /\ ret = Err(<<"An unexpected error occurred during token refresh">>)
    /\ token = NoToken

----------------------------------------------------------------------------
(* Properties of the status reads *)

\* C21: a status read of the poller is never challenge-handled: its _request
\* runs with attempt_captcha_solve off, the solver is not invoked during the
\* session, and a 402 answer to the read fails it like any other status (as
\* "API Error" on the first attempt), so that get() returns nothing and the
\* session goes on polling.
C21_ReadNeverChallenged ==
    caller = "poll" =>
        /\ ~attempt_captcha_solve
        /\ pc # "req_402"
        /\ Count("solve") = 0
        /\ \A i \in Sent :
              log[i].status = 402 =>
                 /\ IsLast(i)
                 /\ pc = "returned"
                 /\ ~ret.ok
                 /\ log[i].op = "request" => ret = Err(<<"API Error">>)
                 /\ GetResult(ret, clip_ids) = <<>>
        /\ (pc = "poll_check" /\ ~ret.ok) => (feed_response = <<>> /\ result = NoResult)

\* C21 witness: a status read answered 402 has failed as an API error after that
\* one request
C21_Witness ==
    /\ caller = "poll"
    /\ pc = "returned"
    /\ Len(log) = 1
    /\ log[1].op = "request" /\ log[1].status = 402
    /\ ret = Err(<<"API Error">>)

\* T / I rounded up
CeilDiv(T, I) == (T + I - 1) \div I

\* C24: with timeout budget T and polling interval I, a poll session makes at
\* most ceil(T / I) ticks (the clock advances only in the sleeps, by I each), and
\* the timeout failure comes after that many at most.
C24_TicksBounded ==
    Polled =>
        /\ tick <= CeilDiv(timeout, polling_interval)
        /\ now - start_time = tick * polling_interval

\* C24 witness: budget ShortTimeout, interval DEFAULT_POLLING_INTERVAL: the
\* session timed out after exactly ceil(T / I) ticks
C24_Witness ==
    /\ pc = "done"
    /\ IsTimeout(result)
    /\ timeout = ShortTimeout
    /\ polling_interval = DEFAULT_POLLING_INTERVAL
    /\ tick = CeilDiv(ShortTimeout, DEFAULT_POLLING_INTERVAL)

----------------------------------------------------------------------------
(* Properties of the construction *)

\* the cookie __init__ works with
TheCookie == CookieOf(cookie, config)

\* the text between the "sid=" that opens the sid field of a cookie and the next
\* ";" or the end of the string; None without such a field
RECURSIVE SidSegmentOf(_)
SidSegmentOf(parts) ==
    IF parts = <<>> THEN None
    ELSE IF LStrip(Head(parts)) # <<>> /\ Head(LStrip(Head(parts))) = "sid="
         THEN Tail(LStrip(Head(parts)))
         ELSE SidSegmentOf(Tail(parts))

SidSegment(cookie_str) == SidSegmentOf(SplitOn(cookie_str, ";"))

\* C25: for a cookie with a sid field, the session id extracted at construction
\* is the text between the "sid=" of that field and the next ";" or the end of
\* the string.
C25_SidIsSegment ==
    (/\ constructed # "new"
     /\ ~Falsy(TheCookie)
     /\ SidSegment(TheCookie) # None)
    => sid_from_cookie = SidSegment(TheCookie)

\* C26: __init__ runs once and, when it fails, nothing follows: without a
\* cookie (argument and SUNO_COOKIE both empty) it raises the cookie error;
\* with a cookie, a base URL that is not local and no session id in the cookie
\* or in SUNO_SESSION_ID it raises the session id error; a failed construction
\* has made no outbound call and has set no token.
C26_ConstructionFails ==
    [][/\ constructed = "new"
       /\ constructed' # "new"
       /\ Falsy(TheCookie) => constructed' = "ValueError: Suno cookie must be provided"
       /\ (/\ ~Falsy(TheCookie)
           /\ ~IsLocalApi(base_url)
           /\ Falsy(ExtractSidFromCookie(TheCookie))
           /\ Falsy(config.SUNO_SESSION_ID))
          => constructed' = "ValueError: Could not find 'sid' in cookie"
       /\ constructed' # "ok" =>
             /\ log' = <<>>
             /\ token' = NoToken
             /\ auth_header' = NoToken
             /\ Falsy(TheCookie) \/ Falsy(session_id')]_vars

\* C26 witness: a remote base URL, a cookie without sid and no SUNO_SESSION_ID:
\* the construction has failed with the session id error
C26_Witness ==
    /\ constructed = "ValueError: Could not find 'sid' in cookie"
    /\ ~IsLocalApi(base_url)
    /\ cookie = <<"a", ";", "b">>
    /\ config.SUNO_SESSION_ID = None
    /\ log = <<>>

\* C27: with a local base URL, a cookie without "sid=" and no SUNO_SESSION_ID,
\* the construction succeeds.
C27_LocalNeedsNoSessionId ==
    (/\ constructed # "new"
     /\ IsLocalApi(base_url)
     /\ ~Falsy(TheCookie)
     /\ "sid=" \notin Range(TheCookie)
     /\ Falsy(config.SUNO_SESSION_ID))
    => constructed = "ok"

----------------------------------------------------------------------------
(* Properties of the payloads *)

\* C28: the payload of generate has "prompt" equal to the empty string, the
\* caller's text under "gpt_description_prompt" only, and the model and the
\* instrumental flag, whatever the text.
C28_FreeTextPayload ==
    (args.mode = "generate" /\ built # <<>>) =>
        /\ DOMAIN built = {"gpt_description_prompt", "prompt", "mv", "make_instrumental"}
        /\ built["prompt"] = ""
        /\ built["gpt_description_prompt"] = args.prompt
        /\ built["mv"] = args.model
        /\ built["make_instrumental"] = args.make_instrumental

\* C28 witness: a payload built by generate from a text that is not empty
C28_Witness ==
    /\ args.mode = "generate"
    /\ args.prompt = "a song about rain"
    /\ built # <<>>
    /\ built["prompt"] = ""

\* C29: the payload of custom_generate has the lyrics under "prompt", never has
\* "gpt_description_prompt", and has "tags" and "title" exactly when the caller
\* passed them (an empty string counts as passed), with the caller's values.
C29_LyricsPayload ==
    (args.mode = "custom" /\ built # <<>>) =>
        /\ built["prompt"] = args.prompt
        /\ "gpt_description_prompt" \notin DOMAIN built
        /\ ("tags" \in DOMAIN built) <=> (args.tags # NoneText)
        /\ ("title" \in DOMAIN built) <=> (args.title # NoneText)
        /\ "tags" \in DOMAIN built => built["tags"] = args.tags
        /\ "title" \in DOMAIN built => built["title"] = args.title
        /\ built["mv"] = args.model
        /\ built["make_instrumental"] = args.make_instrumental

\* C29 witness: a payload built by custom_generate with tags and without a title
C29_Witness ==
    /\ args.mode = "custom"
    /\ args.tags = "pop, upbeat"
    /\ args.title = NoneText
    /\ DOMAIN built = {"prompt", "tags", "mv", "make_instrumental"}

----------------------------------------------------------------------------
(* Properties of the tool layer *)

\* C30: once main.py is imported, registered_tools holds generate_song and
\* custom_generate_song and registered_resource_handlers holds suno, and the
\* initialisation of the client, the tool and resource calls and the cleanup
\* leave both sets as they are.
C30_RegistrationsStay ==
    [][/\ server' # "importing" =>
             /\ {"generate_song", "custom_generate_song"} \subseteq registered_tools'
             /\ "suno" \in registered_resource_handlers'
       /\ server # "importing" =>
             /\ registered_tools' = registered_tools
             /\ registered_resource_handlers' = registered_resource_handlers]_vars

\* C30 witness: the client was initialised, a tool was called, the server was
\* shut down, and the registrations are in place
C30_Witness ==
    /\ server = "closed"
    /\ suno_client = "SunoAdapter"
    /\ tool_result.kind = "text"
    /\ registered_tools = {"generate_song", "custom_generate_song"}
    /\ registered_resource_handlers = {"suno"}

\* the tokens a refresh_token call can have installed
Installable == {"jwt" \o ToString(n) : n \in 1..MaxIssued} \cup {LOCAL_TOKEN}

\* task t sends the retry that follows its 401 refresh
RetrySent(t) == tasks[t].pc = "refresh_exit" /\ tasks'[t].pc = "retry_wait"

\* C22: when refreshes of different generation requests overlap on one
\* adapter, the bearer token is at every moment the one installed by the
\* refresh that completed last, it is one whole issued token (or the seed
\* while no refresh has completed) and the header carries the same one,
\* never an empty one once a refresh has completed; a request answered 401
\* refreshes once itself and retries once, with the token that is current
\* then and not the one the 401 was answered to.
C22_LastWriteWins ==
    /\ [](/\ token = last_write
          /\ token \in SeedTokens \cup Installable
          /\ auth_header = token
          /\ (\E t \in Tasks : tasks[t].installed # NoToken) => token \in Installable)
    /\ [][\A t \in Tasks :
            /\ RetrySent(t) =>
                 /\ tasks[t].installed \in Installable
                 /\ tasks'[t].sent_auth = last_write
                 /\ tasks'[t].sent_auth \in Installable
                 /\ tasks'[t].sent_auth # tasks[t].sent_auth
            /\ tasks[t].pc = "retry_wait" =>
                 tasks'[t].pc \in {"retry_wait", "sleeping", "done"}]_vars

\* the refresh of task 1 completed while that of task 2 was under way, the
\* one of task 2 completed last with the token issued first, and the retry of
\* task 1 carries it
C22_Witness ==
    /\ tasks # <<>>
    /\ tasks[1].pc = "retry_wait"
    /\ tasks[1].raced
    /\ tasks[1].installed = "jwt2"
    /\ tasks[2].installed = "jwt1"
    /\ token = "jwt1"
    /\ tasks[1].sent_auth = "jwt1"

\* task t sends a status read
ReadSent(t) == tasks'[t].inflight > tasks[t].inflight

\* C23: a poll session never has more than one status read in flight, and
\* it sends a read only when its previous read has completed and a full
\* polling interval has passed since that read was sent, whatever the other
\* generation call on the adapter is doing.
C23_TicksSequential ==
    /\ [](\A t \in DOMAIN tasks : tasks[t].inflight \in {0, 1})
    /\ [][\A t \in DOMAIN tasks :
            ReadSent(t) =>
                /\ tasks[t].inflight = 0
                /\ tasks'[t].elapsed >=
                     (IF tasks[t].last_read < 0 THEN 0 ELSE tasks[t].last_read)
                     + tasks[t].polling_interval]_vars

\* the second status read of task 1 is in flight while task 2 awaits the
\* answer to its submission
C23_Witness ==
    /\ tasks # <<>>
    /\ tasks[1].inflight = 1
    /\ tasks[1].last_read = 2 * tasks[1].polling_interval
    /\ tasks[2].op = "submit"
    /\ tasks[2].pc \in {"wait", "refresh_wait", "retry_wait"}

\* C31: an id that a snapshot of the session has shown with a terminal status
\* stays done for the rest of the session, so a session that is still waiting
\* has an id that no snapshot has shown terminal yet: a later snapshot that
\* omits a finished id, or shows it unfinished again, does not send the
\* session back to waiting on it.
C31_TerminalStaysDone ==
    (pc = "poll_check" /\ clip_ids # <<>>) => ObservedTerminal # Range(clip_ids)

\* C32: the timeout budget is a hard deadline of the poll session: once more
\* than timeout has gone by since polling started, no status read is under way
\* and no record set is returned.
C32_HardDeadline ==
    (now - start_time > timeout) =>
        /\ ~(caller = "poll" /\ (InRequest \/ pc = "returned"))
        /\ ~(pc = "done" /\ Polled /\ result.state = "value")

\* the errors refresh_token raises when the token issuance fails
RefreshErrors ==
    {"Failed to refresh token: Session ID might be invalid or expired",
     "Failed to refresh token",
     "An unexpected error occurred during token refresh"}
\* the last _request of the generation call ended with a failed token issuance
IssuanceFailed == \E k \in DOMAIN ret.err : ret.err[k] \in RefreshErrors
\* this step calls the identity provider
TokenCall ==
    \/ /\ Len(log') = Len(log) + 1
       /\ log'[Len(log')].op \in {"lazy_refresh", "refresh"}
       /\ log'[Len(log')].net
    \/ /\ pc = "poll_refresh"
       /\ periodic_refresh' \in {"ok", "failed"}

\* C33: a failed token issuance is not retried: once a refresh_token call of a
\* generation call has failed (the failure its last _request ended with), the
\* rest of that generation call, its poll session included, makes no further
\* call to the identity provider.
C33_FailedIssuanceNotRetried ==
    [][IssuanceFailed => ~TokenCall]_vars

\* C34: when the refresh that a 401 answer triggered fails, nothing is sent
\* after it: the failed refresh is the last outbound call of the _request,
\* which has ended with the error of the 401 branch, and the token and the
\* header are the ones the adapter held before the refresh.
C34_FailedRefreshNoRetry ==
    \A i \in DOMAIN log :
        (log[i].op = "refresh" /\ ~Succeeded(log[i])) =>
            /\ IsLast(i)
            /\ pc = "returned"
            /\ ~ret.ok
            /\ InChain("Token refresh failed or retry failed after 401")
            /\ token = log[i].auth
            /\ auth_header = log[i - 1].auth

\* a submission answered 401 whose refresh the identity provider answered 404
C34_Witness ==
    /\ pc = "returned"
    /\ caller = "submit"
    /\ Len(log) = 2
    /\ log[1].op = "request" /\ log[1].status = 401
    /\ log[2].op = "refresh" /\ log[2].status = 404
    /\ token = "seed"

\* C35: every generation call with wait_audio ends: when time advances and
\* every awaited call returns, the call that has been entered returns a record
\* set or raises, whatever the remote service answers.
C35_Terminates ==
    (pc = "req_begin" /\ caller = "submit" /\ wait_audio)
        ~> (pc = "done" /\ result.state \in {"value", "error"})

\* a call whose status reads all failed and which ended with the timeout
C35_Witness ==
    /\ pc = "done"
    /\ wait_audio
    /\ IsTimeout(result)
    /\ tick = 2
    /\ reads = 2
    /\ ~ret.ok

\* C37: a 402 answer to the retry that follows a 401 refresh ends the _request
\* with the failure of the 401 branch: the retry is the last outbound call (no
\* solve, no further request), also when the caller allowed challenge handling.
C37_RetryNotChallenged ==
    \A i \in DOMAIN log :
        (log[i].op = "retry" /\ log[i].status = 402) =>
            /\ IsLast(i)
            /\ pc = "returned"
            /\ ~ret.ok
            /\ InChain("Token refresh failed or retry failed after 401")
            /\ ~InChain("CAPTCHA required but solving failed")
            /\ \A j \in DOMAIN log : log[j].op = "solve" => j < i

\* a submission (challenge handling allowed) answered 401, refreshed, and
\* answered 402 on the retry
C37_Witness ==
    /\ pc = "returned"
    /\ caller = "submit"
    /\ Len(log) = 3
    /\ log[1].op = "request" /\ log[1].status = 401
    /\ log[2].op = "refresh"
    /\ log[3].op = "retry" /\ log[3].status = 402 /\ log[3].allowed

\* C36: get(ids) never raises.  For an empty id list it returns the empty
\* list and sends nothing; when its _request failed, or answered with a body
\* that is no list, it returns the empty list; otherwise it returns the
\* records of the answer whose id was asked for, and no other record.
C36_GetNeverRaises ==
    /\ caller = "get" => result.state # "error"
    /\ (caller = "get" /\ pc = "done") =>
         /\ result.state = "value"
         /\ get_ids = <<>> => (result.clips = <<>> /\ log = <<>>)
         /\ (~ret.ok \/ ret.resp.shape # "list") => result.clips = <<>>
         /\ \A k \in DOMAIN result.clips : result.clips[k].id \in Range(get_ids)
         /\ (ret.ok /\ ret.resp.shape = "list") =>
              Range(result.clips) = {c \in Range(ret.resp.clips) : c.id \in Range(get_ids)}

\* get(["A"]) answered with a record of A and one of B returns the record of A
C36_Witness ==
    /\ caller = "get"
    /\ pc = "done"
    /\ get_ids = <<"A">>
    /\ ret.ok
    /\ ret.resp.clips = <<[id |-> "B", status |-> "complete"], [id |-> "A", status |-> "streaming"]>>
    /\ result = Value(<<[id |-> "A", status |-> "streaming"]>>)

\* C38: generation calls that run concurrently on one adapter poll
\* independently: a status read of a call asks for the ids of its own
\* submission and for no other, the records a call returns carry only those
\* ids, and a step of one call leaves everything the other call holds as it
\* was (the token and the header are all the calls share).
C38_CallsIndependent ==
    /\ [](\A t \in DOMAIN tasks :
            /\ tasks[t].clip_ids \in {<<>>, SubmissionIds(t)}
            /\ tasks[t].query \in {<<>>, tasks[t].clip_ids}
            /\ tasks[t].inflight = 1 => tasks[t].query = SubmissionIds(t)
            /\ Range(tasks[t].returned) \subseteq Range(SubmissionIds(t))
            /\ (tasks[t].result = "value" /\ tasks[t].clip_ids # <<>>) =>
                  Range(tasks[t].returned) = Range(SubmissionIds(t)))
    /\ [][\A t \in DOMAIN tasks :
            tasks'[t] # tasks[t] =>
               \A u \in DOMAIN tasks \ {t} : tasks'[u] = tasks[u]]_vars

\* the call of task 2 has returned the records of its own clip while a status
\* read of task 1 for its own clip is in flight
C38_Witness ==
    /\ tasks # <<>>
    /\ tasks[1].inflight = 1
    /\ tasks[1].query = <<"A">>
    /\ tasks[1].pc = "wait"
    /\ tasks[2].pc = "done"
    /\ tasks[2].result = "value"
    /\ tasks[2].returned = <<"B">>

\* C39: the tool layer and the adapter agree on what a local deployment is:
\* whenever the tool layer has built the real adapter (to which it forwards
\* the generation calls), the adapter takes its base URL for a local one, so
\* that its refresh_token, and with it every tool call, stays away from the
\* identity provider.
C39_LocalAgreed ==
    suno_client = "SunoAdapter" =>
        /\ IsLocalApi(base_url)
        /\ ~NeedsLazyRefresh(token, base_url)

\* the adapter raised, returned no record, or returned no complete clip
AdapterFailed(r) ==
    \/ r.state = "error"
    \/ r.state = "value" /\ \A i \in DOMAIN r.clips : r.clips[i].status # "complete"

\* C40: a generation call that generate_song or custom_generate_song
\* forwarded to the adapter always gives the tool's caller a text, and when
\* the adapter timed out, raised anything else, returned no record or returned
\* no clip of status complete, that text is a failure message without a
\* suno:// URI.
C40_FailureStaysText ==
    [][/\ result' # result => tool_result'.kind = "text"
       /\ (tool_result'.kind = "text" /\ AdapterFailed(result')) =>
             /\ tool_result'.uri = ""
             /\ tool_result'.text # "Generated song"]_vars

\* generate_song was forwarded to the adapter, which timed out
C40_Witness ==
    /\ suno_client = "SunoAdapter"
    /\ IsTimeout(result)
    /\ tool_result = Text("Error during simple generation", "")

====
